---- MODULE Spec2Model ----
(***************************************************************************)
(* Model of the authorization orchestration and account-lifecycle tracking *)
(* subsystem of oai-team-auto-provisioner: the account tracker (utils.py), *)
(* the team.json normalisation (config.py) and the backend adapters        *)
(* (cpa_service.py, crs_service.py, s2a_service.py, sub2api_service.py).   *)
(*                                                                         *)
(* Text values (emails, names, tokens, URLs) are sequences of one-letter   *)
(* strings so that split/lower/substring are computed, not assumed.        *)
(* Enumerations (status, role, format) are plain strings.  A Python dict   *)
(* is a record; a key the dict does not have is a field the record does    *)
(* not have.                                                               *)
(***************************************************************************)
EXTENDS Integers, Sequences, FiniteSets, TLC

VARIABLES
    \* --- utils.py: the account tracker
    tracker,      \* the in-memory tracker dict {"teams": {...}}
    now,          \* the wall clock read by datetime.now(), in seconds
    lastCall,     \* the tracker call made last: [op, team, email, status, ...]
    ret,          \* the value that call returned
    nCalls,       \* number of tracker calls made so far
    \* --- cpa_service.py: polling of the authorization status
    CPA_POLL_MAX_RETRIES,  \* config.py:316
    CPA_POLL_INTERVAL,     \* config.py:315
    pollPc,       \* position in cpa_poll_auth_status: idle, loop, sleep, done
    attempt,      \* the loop variable of for attempt in range(...)
    nChecks,      \* status requests issued by the current call
    pollRet,      \* the bool the call returned
    lastOutcome,  \* what the backend answered to the last status request
    lastCheck,    \* (is_success, message) of the last cpa_check_auth_status
    progress,     \* the inline progress line currently shown
    slept,        \* seconds spent in time.sleep by the current call
    okSeen,       \* whether a status request of the current call was answered ok
    classesSeen,  \* the classes of answers the current call has met
    reported,     \* for each failure reason, the values returned by calls that ended for it
    nPolls,       \* completed calls of cpa_poll_auth_status
    \* --- cpa_service.py, s2a_service.py: recognising the OAuth callback
    url,          \* the URL the browser shows
    isCpa,        \* result of is_cpa_callback_url(url), once computed
    isS2a,        \* result of is_s2a_callback_url(url), once computed
    cpaInfo,      \* result of extract_callback_info(url), once computed
    s2aCode,      \* result of extract_code_from_url(url), once computed
    \* --- crs_service.py, s2a_service.py, sub2api_service.py: existence check
    poolAccounts, \* the accounts the backend holds, as its listing returns them
    listing,      \* how the listing request ends
    queryEmail,   \* the email asked for
    crsExists,    \* result of crs_check_account_exists, once computed
    s2aExists,    \* result of s2a_check_account_exists, once computed
    sub2Found,    \* result of sub2api_find_openai_oauth_account, once computed
    \* --- crs_service.py: mirroring the team owners into CRS
    INCLUDE_TEAM_OWNERS,  \* config.py:304
    crsBackend,   \* the accounts the CRS backend holds
    syncPc,       \* how the last call ended: idle (none yet), done and raised
                  \* for crs_sync_team_owners, added for crs_add_team_owner
    syncRet,      \* what the last call returned
    crsRequests,  \* the requests sent to CRS by the last call, in order
    nSyncs,       \* completed calls
    \* --- config.py: normalisation of a team.json record
    rawTeam,      \* the record t
    teamIndex,    \* its position in team.json
    parsedTeam,   \* result of _parse_team_config(t, index), once computed
    \* --- crs/cpa/s2a/sub2api_service.py: generating the authorization URL
    genHow,       \* how the generate-auth-url request ends
    genFields,    \* the url and the session token of the answer, as the backend sent them
    crsGen,       \* result of crs_generate_auth_url, once computed
    cpaGen,       \* result of cpa_generate_auth_url, once computed
    s2aGen,       \* result of s2a_generate_auth_url, once computed
    sub2Gen,      \* result of sub2api_generate_openai_auth_url, once computed
    \* --- crs_service.py, s2a_service.py: what a call hands back to its caller
    bndAccounts,  \* the listed accounts as the JSON decoder returns them
    bndListing,   \* how the listing request ends
    bndInclude,   \* INCLUDE_TEAM_OWNERS of this run
    bndCreateOk,  \* whether CRS accepts a create request
    crsExistsCall, \* outcome of crs_check_account_exists, once called
    s2aExistsCall, \* outcome of s2a_check_account_exists, once called
    crsSyncCall,  \* outcome of crs_sync_team_owners, once called
    \* --- crs/cpa/s2a_service.py: verifying the connection at startup
    vfyAdapter,   \* the adapter the runs are configured for: crs, cpa or s2a
    vfyLog,       \* the verify calls made so far: configuration, backend outcome, result
    \* --- crs/cpa/s2a/sub2api_service.py: the retrying transport of http_session
    rtAdapter,    \* the adapter whose session sends: crs, cpa, s2a or sub2api
    rtMethod,     \* the HTTP method of the logical request
    rtPc,         \* idle, sending or done
    rtTotal,      \* the retries the Retry object still allows
    rtSent,       \* transmissions of the current logical request
    rtDelivered,  \* transmissions of it the backend has answered
    rtCauses,     \* the ends of transmissions that were followed by another one
    rtResult,     \* what http_session handed to the caller, once it did
    nRequests,    \* logical requests completed
    \* --- utils.py: the tracker file across crashes and restarts
    pstFile,      \* the tracker file: absent, or a document and how much of it is written
    pstPrev,      \* the file as it was before the save in progress opened it
    pstMem,       \* the tracker dict of the running process, once loaded
    pstPc,        \* down, run, or saving (between open and close in save_team_tracker)
    pstOwed,      \* the (team, email) entries of completed saves that were not removed
    pstSaves,     \* saves begun so far; read as the clock by last_updated
    pstSteps,     \* tracker mutations made so far
    pstCrashes,   \* crashes so far
    \* --- the resolved group-ID cache of the S2A service
    grpIds,       \* S2A_GROUP_IDS of the configuration
    grpNames,     \* S2A_GROUP_NAMES of the configuration
    grpCache,     \* _resolved_group_ids: None until a resolution has returned
    grpRequests,  \* group-listing requests issued so far
    grpWrites,    \* assignments to _resolved_group_ids so far
    grpLog,       \* one record per call of the resolution, in call order
    grpWarnings,  \* what log.warning has been given by the resolution, in order
    \* --- one account through authorization and pool insertion
    attTracker,   \* the tracker the driver records the attempt in
    attPc,        \* "idle", "code" (callback code in hand) or "exchanged"
    attBackend,   \* the backend of the attempt under way
    attCodex,     \* codex_data of the CRS exchange of the attempt under way
    attAuthOk,    \* whether the authorization step of the attempt succeeded
    attLog,       \* the finished attempts, in order
    \* --- the CSV export
    csvFile,      \* CSV_FILE: None while it does not exist, else its text
    csvRows,      \* the rows handed to save_to_csv so far, in call order
    csvNow,       \* the clock that stamps the rows
    \* --- loading of team.json
    ldRaw,        \* _raw_teams: the records of team.json
    ldTeams,      \* TEAMS: the records normalized so far
    \* --- two pipeline instances on one tracker file
    xpFile,       \* the tracker file: whether it exists and the pieces it holds
    xpMem,        \* per instance: the tracker in memory, once loaded
    xpPc,         \* per instance: "run" or "saving"
    xpDoc,        \* per instance: the document save_team_tracker is dumping
    xpPos,        \* per instance: how many pieces of it are written
    xpLast,       \* the instance that completed a save last, with what it saved
    xpOverlap,    \* whether a save has started while another was under way
    xpSteps,      \* mutations made so far
    xpSaves,      \* saves started so far
    \* --- the polling budget the configuration gives
    dflCpa,       \* the [cpa] table of config.toml
    dflInterval,  \* CPA_POLL_INTERVAL, once config.py has run
    dflRetries,   \* CPA_POLL_MAX_RETRIES, once config.py has run
    dflPc,        \* "import", "idle", "loop", "sleep" or "done"
    dflAttempt,   \* the loop variable of cpa_poll_auth_status
    dflChecks,    \* status requests made by the poll
    dflSlept,     \* seconds slept by the poll
    dflRet,       \* what the poll returned
    \* --- the proxy rotation
    PROXY_ENABLED, \* proxy_enabled of config.toml
    PROXIES,      \* the proxy pool: empty when proxies are not enabled
    _proxy_index, \* the rotation counter
    pxLog,        \* one record per call of get_next_proxy, in call order
    \* --- the domain blacklist
    GPTMAIL_DOMAINS, \* gptmail.domains of config.toml
    _domain_blacklist, \* the blacklist in memory
    blFile,       \* domain_blacklist.json
    blAdded,      \* every domain add_domain_to_blacklist was called with
    blGot,        \* one record per call of get_random_gptmail_domain
    blCalls,      \* calls made so far
    \* --- config.py: saving team.json
    svTeams,      \* TEAMS of this run; the raw of each team is its entry of _raw_teams
    svFile,       \* team.json on disk
    svLog,        \* one record per call of save_team_json
    svSteps,      \* steps taken so far
    \* --- the Tk GUI (src/tk_gui/main.py, src/tk_gui/io_redirect.py)
    _state,       \* the run state: running flag, stop event, thread
    _btn_start,   \* state of the start button
    _btn_stop,    \* state of the stop button
    _status_var,  \* the status line
    stopEvents,   \* the threading.Event objects made so far: whether each is set
    workers,      \* the worker threads started so far, in order
    sys_stdout,   \* the process-wide sys.stdout
    sys_stderr,   \* the process-wide sys.stderr
    installed,    \* sys.stdout and sys.stderr when the window was built
    afterQueue,   \* _on_task_finished callbacks waiting in the event loop
    guiHandled,   \* the handler the GUI thread ran last, and how it ended
    stopsFor,     \* the workers that were running when a stop set their event
    lastEnded     \* the task started last, and how its function ended if it has

trackerVars == <<tracker, now, lastCall, ret, nCalls>>
cpaVars == <<CPA_POLL_MAX_RETRIES, CPA_POLL_INTERVAL, pollPc, attempt, nChecks,
             pollRet, lastOutcome, lastCheck, progress, slept, okSeen,
             classesSeen, reported, nPolls>>
urlVars == <<url, isCpa, isS2a, cpaInfo, s2aCode>>
existsVars == <<poolAccounts, listing, queryEmail, crsExists, s2aExists, sub2Found>>
crsVars == <<INCLUDE_TEAM_OWNERS, crsBackend, syncPc, syncRet, crsRequests, nSyncs>>
parseVars == <<rawTeam, teamIndex, parsedTeam>>
genVars == <<genHow, genFields, crsGen, cpaGen, s2aGen, sub2Gen>>
bndVars == <<bndAccounts, bndListing, bndInclude, bndCreateOk,
             crsExistsCall, s2aExistsCall, crsSyncCall>>
vfyVars == <<vfyAdapter, vfyLog>>
rtVars == <<rtAdapter, rtMethod, rtPc, rtTotal, rtSent, rtDelivered, rtCauses,
            rtResult, nRequests>>
pstVars == <<pstFile, pstPrev, pstMem, pstPc, pstOwed, pstSaves, pstSteps,
             pstCrashes>>
grpVars == <<grpIds, grpNames, grpCache, grpRequests, grpWrites, grpLog,
            grpWarnings>>
attVars == <<attTracker, attPc, attBackend, attCodex, attAuthOk, attLog>>
csvVars == <<csvFile, csvRows, csvNow>>
ldVars == <<ldRaw, ldTeams>>
xpVars == <<xpFile, xpMem, xpPc, xpDoc, xpPos, xpLast, xpOverlap, xpSteps,
            xpSaves>>
dflVars == <<dflCpa, dflInterval, dflRetries, dflPc, dflAttempt, dflChecks,
             dflSlept, dflRet>>
pxVars == <<PROXY_ENABLED, PROXIES, _proxy_index, pxLog>>
blVars == <<GPTMAIL_DOMAINS, _domain_blacklist, blFile, blAdded, blGot,
            blCalls>>
svVars == <<svTeams, svFile, svLog, svSteps>>
guiVars == <<_state, _btn_start, _btn_stop, _status_var, stopEvents,
             workers, sys_stdout, sys_stderr, installed, afterQueue,
             guiHandled, stopsFor, lastEnded>>
vars == <<trackerVars, cpaVars, urlVars, existsVars, crsVars, parseVars,
           genVars, bndVars, vfyVars, rtVars, pstVars, grpVars, attVars,
           csvVars, ldVars, xpVars, dflVars, pxVars, blVars, svVars,
           guiVars>>

\* what the operations of one component leave alone
notTracker == <<cpaVars, urlVars, existsVars, crsVars, parseVars, genVars,
                bndVars, vfyVars, rtVars, pstVars, grpVars, attVars,
                csvVars, ldVars, xpVars, dflVars, pxVars, blVars, svVars,
                guiVars>>
notCpa == <<trackerVars, urlVars, existsVars, crsVars, parseVars, genVars,
            bndVars, vfyVars, rtVars, pstVars, grpVars, attVars, csvVars,
            ldVars, xpVars, dflVars, pxVars, blVars, svVars, guiVars>>
notUrl == <<trackerVars, cpaVars, existsVars, crsVars, parseVars, genVars,
            bndVars, vfyVars, rtVars, pstVars, grpVars, attVars, csvVars,
            ldVars, xpVars, dflVars, pxVars, blVars, svVars, guiVars>>
notExists == <<trackerVars, cpaVars, urlVars, crsVars, parseVars, genVars,
               bndVars, vfyVars, rtVars, pstVars, grpVars, attVars,
               csvVars, ldVars, xpVars, dflVars, pxVars, blVars, svVars,
               guiVars>>
notCrs == <<trackerVars, cpaVars, urlVars, existsVars, parseVars, genVars,
            bndVars, vfyVars, rtVars, pstVars, grpVars, attVars, csvVars,
            ldVars, xpVars, dflVars, pxVars, blVars, svVars, guiVars>>
notParse == <<trackerVars, cpaVars, urlVars, existsVars, crsVars, genVars,
              bndVars, vfyVars, rtVars, pstVars, grpVars, attVars, csvVars,
              ldVars, xpVars, dflVars, pxVars, blVars, svVars, guiVars>>
notGen == <<trackerVars, cpaVars, urlVars, existsVars, crsVars, parseVars,
            bndVars, vfyVars, rtVars, pstVars, grpVars, attVars, csvVars,
            ldVars, xpVars, dflVars, pxVars, blVars, svVars, guiVars>>
notBnd == <<trackerVars, cpaVars, urlVars, existsVars, crsVars, parseVars,
            genVars, vfyVars, rtVars, pstVars, grpVars, attVars, csvVars,
            ldVars, xpVars, dflVars, pxVars, blVars, svVars, guiVars>>
notVfy == <<trackerVars, cpaVars, urlVars, existsVars, crsVars, parseVars,
            genVars, bndVars, rtVars, pstVars, grpVars, attVars, csvVars,
            ldVars, xpVars, dflVars, pxVars, blVars, svVars, guiVars>>
notRt == <<trackerVars, cpaVars, urlVars, existsVars, crsVars, parseVars,
           genVars, bndVars, vfyVars, pstVars, grpVars, attVars, csvVars,
           ldVars, xpVars, dflVars, pxVars, blVars, svVars, guiVars>>
notPst == <<trackerVars, cpaVars, urlVars, existsVars, crsVars, parseVars,
            genVars, bndVars, vfyVars, rtVars, grpVars, attVars, csvVars,
            ldVars, xpVars, dflVars, pxVars, blVars, svVars, guiVars>>
notGrp == <<trackerVars, cpaVars, urlVars, existsVars, crsVars, parseVars,
            genVars, bndVars, vfyVars, rtVars, pstVars, attVars, csvVars,
            ldVars, xpVars, dflVars, pxVars, blVars, svVars, guiVars>>
notAtt == <<trackerVars, cpaVars, urlVars, existsVars, crsVars, parseVars,
            genVars, bndVars, vfyVars, rtVars, pstVars, grpVars, csvVars,
            ldVars, xpVars, dflVars, pxVars, blVars, svVars, guiVars>>
notCsv == <<trackerVars, cpaVars, urlVars, existsVars, crsVars, parseVars,
            genVars, bndVars, vfyVars, rtVars, pstVars, grpVars, attVars,
            ldVars, xpVars, dflVars, pxVars, blVars, svVars, guiVars>>
notLd == <<trackerVars, cpaVars, urlVars, existsVars, crsVars, parseVars,
           genVars, bndVars, vfyVars, rtVars, pstVars, grpVars, attVars,
           csvVars, xpVars, dflVars, pxVars, blVars, svVars, guiVars>>
notXp == <<trackerVars, cpaVars, urlVars, existsVars, crsVars, parseVars,
           genVars, bndVars, vfyVars, rtVars, pstVars, grpVars, attVars,
           csvVars, ldVars, dflVars, pxVars, blVars, svVars, guiVars>>
notDfl == <<trackerVars, cpaVars, urlVars, existsVars, crsVars, parseVars,
            genVars, bndVars, vfyVars, rtVars, pstVars, grpVars, attVars,
            csvVars, ldVars, xpVars, pxVars, blVars, svVars, guiVars>>
notPx == <<trackerVars, cpaVars, urlVars, existsVars, crsVars, parseVars,
           genVars, bndVars, vfyVars, rtVars, pstVars, grpVars, attVars,
           csvVars, ldVars, xpVars, dflVars, blVars, svVars, guiVars>>
notBl == <<trackerVars, cpaVars, urlVars, existsVars, crsVars, parseVars,
           genVars, bndVars, vfyVars, rtVars, pstVars, grpVars, attVars,
           csvVars, ldVars, xpVars, dflVars, pxVars, svVars, guiVars>>
notSv == <<trackerVars, cpaVars, urlVars, existsVars, crsVars, parseVars,
           genVars, bndVars, vfyVars, rtVars, pstVars, grpVars, attVars,
           csvVars, ldVars, xpVars, dflVars, pxVars, blVars, guiVars>>
notGui == <<trackerVars, cpaVars, urlVars, existsVars, crsVars, parseVars,
            genVars, bndVars, vfyVars, rtVars, pstVars, grpVars, attVars,
            csvVars, ldVars, xpVars, dflVars, pxVars, blVars, svVars>>

\* -------------------------------------------------------------------------
\* Bounds
\* -------------------------------------------------------------------------
MaxCalls == 2
MaxNow == 1
MaxPollRetries == 3
MaxPolls == 2
MaxParams == 2
MaxAccounts == 2
MaxSyncs == 2
MaxIndex == 1
MaxListed == 2
MaxVerifies == 2
MaxRequests == 2
MaxSteps == 2
MaxSaves == 2
MaxCrashes == 1
MaxResolves == 3
MaxGroups == 2
MaxAttempts == 2
MaxCsvCalls == 2
MaxTeams == 2
MaxProxies == 3
MaxProxyCalls == 4
MaxBlacklistCalls == 3
MaxTeamSteps == 4
MaxTasks == 2

\* -------------------------------------------------------------------------
\* Python helpers
\* -------------------------------------------------------------------------
\* the dict {}
EmptyDict == [k \in {} |-> k]

\* dict.get(key, default)
Get(d, key, default) == IF key \in DOMAIN d THEN d[key] ELSE default

\* d[key] = value on a dict (adds the key when it is missing)
Put(d, key, value) == (key :> value) @@ d

\* Python's None and a value that is not None
None == [none |-> TRUE]
Some(v) == [none |-> FALSE, val |-> v]

\* a result variable before and after its function has been called
Unset == [set |-> FALSE]
SetTo(v) == [set |-> TRUE, val |-> v]

\* a response body: response.json() raises on the first and returns the
\* dict obj on the second
NotJson == [valid |-> FALSE]
Json(obj) == [valid |-> TRUE, obj |-> obj]

\* str.lower() on the letters used here
LowerChar(c) ==
    CASE c = "A" -> "a" [] c = "B" -> "b" [] c = "F" -> "f" [] c = "G" -> "g"
      [] c = "H" -> "h" [] c = "X" -> "x" [] c = "Y" -> "y" [] OTHER -> c

Lower(s) == [i \in 1..Len(s) |-> LowerChar(s[i])]

\* str.strip()
RECURSIVE Strip(_)
Strip(s) ==
    IF s = <<>> THEN s
    ELSE IF Head(s) = " " THEN Strip(Tail(s))
    ELSE IF s[Len(s)] = " " THEN Strip(SubSeq(s, 1, Len(s) - 1))
    ELSE s

\* "@" in s
HasAt(s) == \E i \in 1..Len(s) : s[i] = "@"

\* the part before the last "@" instead of the first
BeforeAt_last_at(s) ==
    IF HasAt(s)
    THEN SubSeq(s, 1, (CHOOSE i \in 1..Len(s) :
                          s[i] = "@" /\ \A j \in (i + 1)..Len(s) : s[j] # "@") - 1)
    ELSE s

\* s.split("@")[0]: the part before the first "@" (all of s without "@")
BeforeAt(s) ==
    IF HasAt(s)
    THEN SubSeq(s, 1, (CHOOSE i \in 1..Len(s) :
                          s[i] = "@" /\ \A j \in 1..(i - 1) : s[j] # "@") - 1)
    ELSE s

Digit(n) == CASE n = 0 -> "0" [] n = 1 -> "1" [] n = 2 -> "2" [] n = 3 -> "3"
              [] n = 4 -> "4" [] n = 5 -> "5" [] n = 6 -> "6" [] n = 7 -> "7"
              [] n = 8 -> "8" [] n = 9 -> "9"

\* f"Team{n}" for n < 10
TeamN(n) == <<"T", "e", "a", "m", Digit(n)>>

\* -------------------------------------------------------------------------
\* config.py: normalisation of one team.json record
\* -------------------------------------------------------------------------
\* A raw record is a dict; its "account" is a string (current format) or an
\* object (legacy format); "user" is an object.  isinstance(x, str) is
\* modelled by the tag of the JSON value.
IsStr(v) == v.type = "str"
JStr(s) == [type |-> "str", str |-> s]
JObj(o) == [type |-> "obj", obj |-> o]
JNone == [type |-> "none"]

\* t.get("user", {}).get("email", default) and the like
GetIn(t, outer, inner, default) ==
    IF outer \in DOMAIN t THEN Get(t[outer].obj, inner, default) ELSE default

\* the legacy branch reporting the current format
_parse_team_config_format_always_new(t, index) ==
    IF IsStr(Get(t, "account", JNone))
    THEN LET email == Get(t, "account", JNone).str
             token == Get(t, "token", <<>>)
         IN [name |-> IF HasAt(email) THEN BeforeAt(email) ELSE TeamN(index + 1),
             account_id |-> Get(t, "account_id", <<>>),
             org_id |-> <<>>,
             auth_token |-> token,
             owner_email |-> email,
             owner_password |-> Get(t, "password", <<>>),
             needs_login |-> (token = <<>>),
             authorized |-> Get(t, "authorized", FALSE),
             format |-> "new",
             raw |-> t]
    ELSE LET email == GetIn(t, "user", "email", TeamN(index + 1))
         IN [name |-> IF HasAt(email) THEN BeforeAt(email) ELSE TeamN(index + 1),
             account_id |-> GetIn(t, "account", "id", <<>>),
             org_id |-> GetIn(t, "account", "organizationId", <<>>),
             auth_token |-> Get(t, "accessToken", <<>>),
             owner_email |-> email,
             owner_password |-> <<>>,
             format |-> "new",
             raw |-> t]

_parse_team_config(t, index) ==
    IF IsStr(Get(t, "account", JNone))
    THEN LET email == Get(t, "account", JNone).str
             token == Get(t, "token", <<>>)
         IN [name |-> IF HasAt(email) THEN BeforeAt(email) ELSE TeamN(index + 1),
             account_id |-> Get(t, "account_id", <<>>),
             org_id |-> <<>>,
             auth_token |-> token,
             owner_email |-> email,
             owner_password |-> Get(t, "password", <<>>),
             needs_login |-> (token = <<>>),
             authorized |-> Get(t, "authorized", FALSE),
             format |-> "new",
             raw |-> t]
    ELSE LET email == GetIn(t, "user", "email", TeamN(index + 1))
         IN [name |-> IF HasAt(email) THEN BeforeAt(email) ELSE TeamN(index + 1),
             account_id |-> GetIn(t, "account", "id", <<>>),
             org_id |-> GetIn(t, "account", "organizationId", <<>>),
             auth_token |-> Get(t, "accessToken", <<>>),
             owner_email |-> email,
             owner_password |-> <<>>,
             format |-> "old",
             raw |-> t]

\* team.json as loaded by _load_teams (config.py:113): two current-format
\* owners with a token, one legacy owner whose name collides with the first,
\* one current-format owner without token and a second legacy owner.
RawTeams ==
    << [account |-> JStr(<<"a", "@", "x">>), token |-> <<"t">>,
        password |-> <<"p">>, authorized |-> TRUE],
       [account |-> JStr(<<"b", "@", "x">>), token |-> <<"t">>],
       [user |-> JObj([email |-> <<"a", "@", "y">>]),
        account |-> JObj([id |-> <<"1">>, organizationId |-> <<"o">>]),
        accessToken |-> <<"t">>],
       [account |-> JStr(<<"c", "@", "x">>), password |-> <<"p">>],
       [user |-> JObj([email |-> <<"b", "@", "y">>, id |-> <<"u">>]),
        account |-> JObj([id |-> <<"2">>, organizationId |-> <<"o">>]),
        accessToken |-> <<"t">>] >>

\* config.py:172-175
TEAMS == [i \in 1..Len(RawTeams) |-> _parse_team_config(RawTeams[i], i - 1)]

\* -------------------------------------------------------------------------
\* utils.py: the account tracker
\* -------------------------------------------------------------------------
Statuses == {"invited", "registered", "authorized", "completed", "failed",
             "team_owner"}

\* Inputs of the pipeline driver
TeamNames == {<<"a">>, <<"b">>}
Emails == {<<"a", "@", "x">>, <<"m", "@", "x">>}
Passwords == {<<"p">>}
DefaultPassword == <<"d">>

\* index of the first account of the list with this email, 0 when there is none
\* (the for ... if account["email"] == email ... return loops)
FirstIdx(list, email) ==
    IF \E i \in 1..Len(list) : list[i].email = email
    THEN CHOOSE i \in 1..Len(list) :
            list[i].email = email /\ \A j \in 1..(i - 1) : list[j].email # email
    ELSE 0

\* if team_name not in tracker["teams"]: tracker["teams"][team_name] = []
EnsureTeam(teams, team_name) ==
    IF team_name \in DOMAIN teams THEN teams ELSE Put(teams, team_name, <<>>)

\* a variant that appends without looking for an existing row
add_account_to_tracker_always_append(tr, team_name, email, status, c, u) ==
    LET teams == EnsureTeam(tr.teams, team_name)
    IN [tr EXCEPT !.teams = Put(teams, team_name,
            Append(teams[team_name], [email |-> email, status |-> status,
                                      created_at |-> c, updated_at |-> u]))]

\* c, u: the values datetime.now() returns at its successive reads
add_account_to_tracker(tr, team_name, email, status, c, u) ==
    LET teams == EnsureTeam(tr.teams, team_name)
        list == teams[team_name]
        i == FirstIdx(list, email)
    IN IF i # 0
       THEN [tr EXCEPT !.teams = Put(teams, team_name,
                [list EXCEPT ![i] = Put(Put(@, "status", status), "updated_at", u)])]
       ELSE [tr EXCEPT !.teams = Put(teams, team_name,
                Append(list, [email |-> email, status |-> status,
                              created_at |-> c, updated_at |-> u]))]

\* a variant that creates the row it does not find
update_account_status_upsert(tr, team_name, email, status, u) ==
    add_account_to_tracker(tr, team_name, email, status, u, u)

update_account_status(tr, team_name, email, status, u) ==
    IF team_name \in DOMAIN tr.teams /\ FirstIdx(tr.teams[team_name], email) # 0
    THEN LET list == tr.teams[team_name]
             i == FirstIdx(list, email)
         IN [tr EXCEPT !.teams = Put(tr.teams, team_name,
                [list EXCEPT ![i] = Put(Put(@, "status", status), "updated_at", u)])]
    ELSE tr

\* a variant that returns True for every known team
remove_account_from_tracker_true_for_known_team(tr, team_name, email) ==
    IF team_name \in DOMAIN tr.teams
    THEN LET list == tr.teams[team_name]
             kept == SelectSeq(list, LAMBDA acc : acc.email # email)
         IN [tracker |-> [tr EXCEPT !.teams = Put(tr.teams, team_name, kept)],
             ret |-> TRUE]
    ELSE [tracker |-> tr, ret |-> FALSE]

\* returns the tracker after the call and the returned bool
remove_account_from_tracker(tr, team_name, email) ==
    IF team_name \in DOMAIN tr.teams
    THEN LET list == tr.teams[team_name]
             kept == SelectSeq(list, LAMBDA acc : acc.email # email)
         IN [tracker |-> [tr EXCEPT !.teams = Put(tr.teams, team_name, kept)],
             ret |-> Len(kept) < Len(list)]
    ELSE [tracker |-> tr, ret |-> FALSE]

get_team_account_count(tr, team_name) ==
    IF team_name \in DOMAIN tr.teams THEN Len(tr.teams[team_name]) ELSE 0

\* a variant that also treats failed rows as finished
RECURSIVE IncompleteLoop_skip_failed(_, _, _)
IncompleteLoop_skip_failed(list, i, incomplete) ==
    IF i > Len(list) THEN incomplete
    ELSE LET account == list[i]
             status == Get(account, "status", "")
         IN IncompleteLoop_skip_failed(list, i + 1,
                IF status # "completed" /\ status # "failed"
                THEN Append(incomplete,
                        [email |-> account.email,
                         status |-> status,
                         password |-> Get(account, "password", <<>>),
                         role |-> Get(account, "role", "member")])
                ELSE incomplete)

RECURSIVE IncompleteLoop(_, _, _)
IncompleteLoop(list, i, incomplete) ==
    IF i > Len(list) THEN incomplete
    ELSE LET account == list[i]
             status == Get(account, "status", "")
         IN IncompleteLoop(list, i + 1,
                IF status # "completed"
                THEN Append(incomplete,
                        [email |-> account.email,
                         status |-> status,
                         password |-> Get(account, "password", <<>>),
                         role |-> Get(account, "role", "member")])
                ELSE incomplete)

\* returns the tracker after the call and the returned list
get_incomplete_accounts(tr, team_name) ==
    [tracker |-> tr,
     ret |-> IF team_name \in DOMAIN Get(tr, "teams", EmptyDict)
             THEN IncompleteLoop(tr.teams[team_name], 1, <<>>)
             ELSE <<>>]

\* a variant that refreshes password and updated_at of an existing row but
\* leaves its status
add_account_with_password_keep_status(tr, team_name, email, password, status, c, u) ==
    LET teams == EnsureTeam(tr.teams, team_name)
        list == teams[team_name]
        i == FirstIdx(list, email)
    IN IF i # 0
       THEN [tr EXCEPT !.teams = Put(teams, team_name,
                [list EXCEPT ![i] = Put(Put(@, "password", password), "updated_at", u)])]
       ELSE [tr EXCEPT !.teams = Put(teams, team_name,
                Append(list, [email |-> email, password |-> password,
                              status |-> status, role |-> "member",
                              created_at |-> c, updated_at |-> u]))]

add_account_with_password(tr, team_name, email, password, status, c, u) ==
    LET teams == EnsureTeam(tr.teams, team_name)
        list == teams[team_name]
        i == FirstIdx(list, email)
    IN IF i # 0
       THEN [tr EXCEPT !.teams = Put(teams, team_name,
                [list EXCEPT ![i] = Put(Put(Put(@, "status", status),
                                            "password", password), "updated_at", u)])]
       ELSE [tr EXCEPT !.teams = Put(teams, team_name,
                Append(list, [email |-> email, password |-> password,
                              status |-> status, role |-> "member",
                              created_at |-> c, updated_at |-> u]))]

\* a variant that sends legacy owners through the authorization of members
OwnerStatus_legacy_registered(team) ==
    IF Get(team, "format", "old") = "new"
    THEN IF Get(team, "authorized", FALSE) THEN "completed" ELSE "registered"
    ELSE "registered"

\* the status an owner row is created with (utils.py:341-347)
OwnerStatus(team) ==
    IF Get(team, "format", "old") = "new"
    THEN IF Get(team, "authorized", FALSE) THEN "completed" ELSE "registered"
    ELSE "team_owner"

RECURSIVE OwnersLoop(_, _, _, _, _, _)
OwnersLoop(tr, i, added_count, password, c, u) ==
    IF i > Len(TEAMS) THEN [tracker |-> tr, ret |-> added_count]
    ELSE LET team == TEAMS[i]
             team_name == Get(team, "name", <<>>)
             email0 == Get(team, "owner_email", <<>>)
             email == IF email0 = <<>>
                      THEN GetIn(Get(team, "raw", EmptyDict), "user", "email", <<>>)
                      ELSE email0
             owner_password == IF Get(team, "owner_password", <<>>) # <<>>
                               THEN team.owner_password ELSE password
             existing == /\ team_name \in DOMAIN Get(tr, "teams", EmptyDict)
                         /\ \E k \in 1..Len(tr.teams[team_name]) :
                               Get(tr.teams[team_name][k], "email", <<>>) = email
         IN IF Get(team, "auth_token", <<>>) = <<>> THEN
                OwnersLoop(tr, i + 1, added_count, password, c, u)
            ELSE IF team_name = <<>> \/ email = <<>> THEN
                OwnersLoop(tr, i + 1, added_count, password, c, u)
            ELSE IF existing THEN
                OwnersLoop(tr, i + 1, added_count, password, c, u)
            ELSE
                LET teams == EnsureTeam(tr.teams, team_name)
                    row == [email |-> email, password |-> owner_password,
                            status |-> OwnerStatus(team), role |-> "owner",
                            created_at |-> c, updated_at |-> u]
                IN OwnersLoop([tr EXCEPT !.teams =
                                  Put(teams, team_name, Append(teams[team_name], row))],
                              i + 1, added_count + 1, password, c, u)

\* include: config.INCLUDE_TEAM_OWNERS
add_team_owners_to_tracker(tr, password, include, c, u) ==
    IF ~include THEN [tracker |-> tr, ret |-> 0]
    ELSE IF Len(TEAMS) = 0 THEN [tracker |-> tr, ret |-> 0]
    ELSE OwnersLoop(tr, 1, 0, password, c, u)

\* -------------------------------------------------------------------------
\* The tracker as a state machine: the calls the pipeline driver makes
\* -------------------------------------------------------------------------
\* load_team_tracker (utils.py:44-57): no file; a file written by an earlier
\* version whose row carries neither status nor password nor role; a file
\* saved by an earlier run of this version.
LoadedTrackers ==
    { [teams |-> EmptyDict],
      [teams |-> (<<"a">> :> << [email |-> <<"m", "@", "x">>,
                                  created_at |-> 0, updated_at |-> 0] >>)],
      [teams |-> (<<"a">> :> << [email |-> <<"a", "@", "x">>, password |-> <<"p">>,
                                  status |-> "completed", role |-> "owner",
                                  created_at |-> 0, updated_at |-> 0],
                                 [email |-> <<"m", "@", "x">>, password |-> <<"p">>,
                                  status |-> "invited", role |-> "member",
                                  created_at |-> 0, updated_at |-> 0] >>)
                  @@ (<<"b">> :> << [email |-> <<"m", "@", "x">>,
                                     status |-> "failed",
                                     created_at |-> 0, updated_at |-> 0] >>)] }

TrackerInit ==
    /\ tracker \in LoadedTrackers
    /\ now = 0
    /\ lastCall = [op |-> "load"]
    /\ ret = FALSE
    /\ nCalls = 0

\* two successive reads c <= u of a clock that never runs backwards
ClockReads == {cu \in (now..MaxNow) \X (now..MaxNow) : cu[1] <= cu[2]}

AddAccountToTracker(T, E, s) ==
    /\ nCalls < MaxCalls
    /\ UNCHANGED notTracker
    /\ \E cu \in ClockReads :
          /\ tracker' = add_account_to_tracker(tracker, T, E, s, cu[1], cu[2])
          /\ now' = cu[2]
    /\ lastCall' = [op |-> "add_account_to_tracker", team |-> T, email |-> E,
                    status |-> s]
    /\ ret' = FALSE
    /\ nCalls' = nCalls + 1

AddAccountWithPassword(T, E, p, s) ==
    /\ nCalls < MaxCalls
    /\ UNCHANGED notTracker
    /\ \E cu \in ClockReads :
          /\ tracker' = add_account_with_password(tracker, T, E, p, s, cu[1], cu[2])
          /\ now' = cu[2]
    /\ lastCall' = [op |-> "add_account_with_password", team |-> T, email |-> E,
                    status |-> s, password |-> p]
    /\ ret' = FALSE
    /\ nCalls' = nCalls + 1

UpdateAccountStatus(T, E, s) ==
    /\ nCalls < MaxCalls
    /\ UNCHANGED notTracker
    /\ \E u \in now..MaxNow :
          /\ tracker' = update_account_status(tracker, T, E, s, u)
          /\ now' = u
    /\ lastCall' = [op |-> "update_account_status", team |-> T, email |-> E,
                    status |-> s]
    /\ ret' = FALSE
    /\ nCalls' = nCalls + 1

RemoveAccountFromTracker(T, E) ==
    /\ nCalls < MaxCalls
    /\ UNCHANGED notTracker
    /\ LET r == remove_account_from_tracker(tracker, T, E)
       IN /\ tracker' = r.tracker
          /\ ret' = r.ret
    /\ lastCall' = [op |-> "remove_account_from_tracker", team |-> T, email |-> E]
    /\ nCalls' = nCalls + 1
    /\ UNCHANGED now

GetIncompleteAccounts(T) ==
    /\ nCalls < MaxCalls
    /\ UNCHANGED notTracker
    /\ LET r == get_incomplete_accounts(tracker, T)
       IN /\ tracker' = r.tracker
          /\ ret' = r.ret
    /\ lastCall' = [op |-> "get_incomplete_accounts", team |-> T]
    /\ nCalls' = nCalls + 1
    /\ UNCHANGED now

AddTeamOwnersToTracker(include) ==
    /\ nCalls < MaxCalls
    /\ UNCHANGED notTracker
    /\ \E cu \in ClockReads :
          LET r == add_team_owners_to_tracker(tracker, DefaultPassword, include,
                                              cu[1], cu[2])
          IN /\ tracker' = r.tracker
             /\ ret' = r.ret
             /\ now' = IF r.ret > 0 THEN cu[2] ELSE now
    /\ lastCall' = [op |-> "add_team_owners_to_tracker", include |-> include]
    /\ nCalls' = nCalls + 1

TrackerNext ==
    \/ \E T \in TeamNames, E \in Emails, s \in Statuses : AddAccountToTracker(T, E, s)
    \/ \E T \in TeamNames, E \in Emails, p \in Passwords, s \in Statuses :
          AddAccountWithPassword(T, E, p, s)
    \/ \E T \in TeamNames, E \in Emails, s \in Statuses : UpdateAccountStatus(T, E, s)
    \/ \E T \in TeamNames, E \in Emails : RemoveAccountFromTracker(T, E)
    \/ \E T \in TeamNames \cup {<<"z">>} : GetIncompleteAccounts(T)
    \/ \E include \in BOOLEAN : AddTeamOwnersToTracker(include)

\* -------------------------------------------------------------------------
\* Properties of the tracker
\* -------------------------------------------------------------------------
IsUpsert(call) == call.op \in {"add_account_to_tracker", "add_account_with_password"}

\* the positions of team T's list that hold email E
Rows(tr, T, E) ==
    IF T \in DOMAIN tr.teams
    THEN {i \in 1..Len(tr.teams[T]) : tr.teams[T][i].email = E}
    ELSE {}

\* C1: an upsert for (T, E, s1) followed by an upsert for (T, E, s2), by
\* either upsert function, leaves exactly one row for (T, E), with status s2.
C1_IdempotentUpsert ==
    [][(/\ nCalls' = nCalls + 1
        /\ IsUpsert(lastCall) /\ IsUpsert(lastCall')
        /\ lastCall.team = lastCall'.team /\ lastCall.email = lastCall'.email)
       => LET rows == Rows(tracker', lastCall'.team, lastCall'.email)
          IN /\ Cardinality(rows) = 1
             /\ \A i \in rows :
                   tracker'.teams[lastCall'.team][i].status = lastCall'.status]_vars

\* a row created without role by add_account_to_tracker and then given a
\* password and a new status by add_account_with_password one second later
C1_Witness ==
    /\ nCalls = 2
    /\ lastCall = [op |-> "add_account_with_password", team |-> <<"b">>,
                   email |-> <<"a", "@", "x">>, status |-> "completed",
                   password |-> <<"p">>]
    /\ \E i \in Rows(tracker, <<"b">>, <<"a", "@", "x">>) :
          LET row == tracker.teams[<<"b">>][i]
          IN /\ "role" \notin DOMAIN row
             /\ row.status = "completed"
             /\ row.created_at = 0 /\ row.updated_at = 1

\* C2: every team's list holds at most one row per email.
C2_UniquePerTeamEmail ==
    \A T \in DOMAIN tracker.teams :
        \A i, j \in 1..Len(tracker.teams[T]) :
            tracker.teams[T][i].email = tracker.teams[T][j].email => i = j

\* an upsert that found its row among several and refreshed it
C2_Witness ==
    /\ lastCall.op = "add_account_to_tracker"
    /\ Len(tracker.teams[lastCall.team]) >= 2
    /\ \E i \in Rows(tracker, lastCall.team, lastCall.email) :
          LET row == tracker.teams[lastCall.team][i]
          IN row.created_at = 0 /\ row.updated_at = 1

\* C3: get_incomplete_accounts(tracker, T) returns, in tracker order, the rows
\* of T whose status is not completed (a missing status counts as not
\* completed), nothing for an unknown team, and leaves the tracker as it was.
C3_IncompleteExactlyNotCompleted ==
    [][(nCalls' = nCalls + 1 /\ lastCall'.op = "get_incomplete_accounts")
       => LET T == lastCall'.team
              list == IF T \in DOMAIN tracker.teams THEN tracker.teams[T] ELSE <<>>
              todo == SelectSeq(list, LAMBDA acc :
                         ~("status" \in DOMAIN acc /\ acc.status = "completed"))
          IN /\ tracker' = tracker
             /\ Len(ret') = Len(todo)
             /\ \A i \in 1..Len(todo) :
                   /\ ret'[i].email = todo[i].email
                   /\ ret'[i].status # "completed"
                   /\ "status" \in DOMAIN todo[i] => ret'[i].status = todo[i].status]_vars

\* a call that left out a completed row and returned a row without status
C3_Witness ==
    /\ lastCall.op = "get_incomplete_accounts"
    /\ lastCall.team \in DOMAIN tracker.teams
    /\ Len(ret) >= 2
    /\ Len(ret) < Len(tracker.teams[lastCall.team])
    /\ \E i \in 1..Len(ret) : ret[i].status = ""
    /\ \E i \in 1..Len(ret) : ret[i].status = "team_owner"

\* -------------------------------------------------------------------------
\* cpa_service.py: polling the authorization status
\* -------------------------------------------------------------------------
\* What http_session.get(.../get-auth-status) can produce: an exception
\* (timeout, connection failure, retries exhausted), or a response with a
\* status code and a body; a body is JSON (a dict) or not.
StatusBodies == { Json([status |-> "ok"]), Json([status |-> "wait"]),
                  Json([status |-> "error"]), Json([detail |-> "x"]), NotJson }

StatusOutcomes ==
    { [kind |-> "exception"] }
    \cup { [kind |-> "response", status_code |-> 200, body |-> b] : b \in StatusBodies }
    \cup { [kind |-> "response", status_code |-> c, body |-> NotJson] : c \in {401, 500} }

NonOkOutcomes ==
    StatusOutcomes \ { [kind |-> "response", status_code |-> 200,
                        body |-> Json([status |-> "ok"])] }

\* a variant that takes every JSON answer of status code 200 for a success
cpa_check_auth_status_any_200(outcome) ==
    IF outcome.kind = "exception"
    THEN [is_success |-> FALSE, message |-> [kind |-> "exception"]]
    ELSE IF outcome.status_code = 200
    THEN IF ~outcome.body.valid
         THEN [is_success |-> FALSE, message |-> [kind |-> "exception"]]
         ELSE [is_success |-> TRUE, message |-> [kind |-> "ok"]]
    ELSE [is_success |-> FALSE,
          message |-> [kind |-> "http", code |-> outcome.status_code]]

\* a variant whose failure messages all read the same
cpa_check_auth_status_one_message(outcome) ==
    IF /\ outcome.kind = "response" /\ outcome.status_code = 200
       /\ outcome.body.valid /\ Get(outcome.body.obj, "status", "") = "ok"
    THEN [is_success |-> TRUE, message |-> [kind |-> "ok"]]
    ELSE [is_success |-> FALSE, message |-> [kind |-> "exception"]]

\* the pair (is_success, message); the message is kept by its kind and its
\* variable part
cpa_check_auth_status(outcome) ==
    IF outcome.kind = "exception"
    THEN [is_success |-> FALSE, message |-> [kind |-> "exception"]]
    ELSE IF outcome.status_code = 200
    THEN IF ~outcome.body.valid
         THEN \* response.json() raises, caught by except Exception
              [is_success |-> FALSE, message |-> [kind |-> "exception"]]
         ELSE LET status == Get(outcome.body.obj, "status", "")
              IN IF status = "ok"
                 THEN [is_success |-> TRUE, message |-> [kind |-> "ok"]]
                 ELSE [is_success |-> FALSE,
                       message |-> [kind |-> "status", status |-> status]]
    ELSE [is_success |-> FALSE,
          message |-> [kind |-> "http", code |-> outcome.status_code]]

\* for attempt in range(n): does the loop have another iteration
RangeHasNext_one_more(i, n) == i <= n

RangeHasNext(i, n) == i < n

\* The class of an answer, for telling the reasons of a failed call apart:
\* pending (the backend is still waiting), rejected (a definitive non-ok
\* status), protocol (an answer of unexpected shape or status code),
\* network (no answer).
OutcomeClass(outcome) ==
    IF outcome.kind = "exception" THEN "network"
    ELSE IF outcome.status_code # 200 \/ ~outcome.body.valid THEN "protocol"
    ELSE IF "status" \notin DOMAIN outcome.body.obj THEN "protocol"
    ELSE IF outcome.body.obj.status = "wait" THEN "pending"
    ELSE IF outcome.body.obj.status = "ok" THEN "ok"
    ELSE "rejected"

FailureReasons == {"timeout", "rejected", "protocol"}

\* the reason a failed call ended for, when all its answers were of one class
RunReason(classes) ==
    IF classes \subseteq {"pending"} THEN "timeout"
    ELSE IF classes = {"rejected"} THEN "rejected"
    ELSE IF classes = {"protocol"} THEN "protocol"
    ELSE "mixed"

NoOutcome == [kind |-> "none"]
NoCheck == [is_success |-> FALSE, message |-> [kind |-> "none"]]
NoProgress == [shown |-> FALSE]

CpaIdle ==
    /\ CPA_POLL_MAX_RETRIES = 0
    /\ CPA_POLL_INTERVAL = 0
    /\ pollPc = "idle"
    /\ attempt = 0
    /\ nChecks = 0
    /\ pollRet = FALSE
    /\ lastOutcome = NoOutcome
    /\ lastCheck = NoCheck
    /\ progress = NoProgress
    /\ slept = 0
    /\ okSeen = FALSE
    /\ classesSeen = {}
    /\ reported = [r \in FailureReasons |-> {}]
    /\ nPolls = 0

\* config.py:315-316: any configured budget and interval
CpaInit ==
    /\ CPA_POLL_MAX_RETRIES \in 0..MaxPollRetries
    /\ CPA_POLL_INTERVAL \in {1, 2}
    /\ pollPc = "idle"
    /\ attempt = 0
    /\ nChecks = 0
    /\ pollRet = FALSE
    /\ lastOutcome = NoOutcome
    /\ lastCheck = NoCheck
    /\ progress = NoProgress
    /\ slept = 0
    /\ okSeen = FALSE
    /\ classesSeen = {}
    /\ reported = [r \in FailureReasons |-> {}]
    /\ nPolls = 0

\* entry of cpa_poll_auth_status(state) (lines 260-263)
CpaPollStart ==
    /\ pollPc \in {"idle", "done"}
    /\ nPolls < MaxPolls
    /\ pollPc' = "loop"
    /\ attempt' = 0
    /\ nChecks' = 0
    /\ slept' = 0
    /\ okSeen' = FALSE
    /\ classesSeen' = {}
    /\ lastOutcome' = NoOutcome
    /\ lastCheck' = NoCheck
    /\ progress' = NoProgress
    /\ UNCHANGED <<CPA_POLL_MAX_RETRIES, CPA_POLL_INTERVAL, pollRet, reported, nPolls>>
    /\ UNCHANGED notCpa

\* one iteration up to the sleep (lines 263-271): the status request, then
\* return True on success or the progress line
CpaPollCheck(outcome) ==
    /\ pollPc = "loop"
    /\ RangeHasNext(attempt, CPA_POLL_MAX_RETRIES)
    /\ LET r == cpa_check_auth_status(outcome)
       IN /\ lastCheck' = r
          /\ lastOutcome' = outcome
          /\ nChecks' = nChecks + 1
          /\ okSeen' = (okSeen \/ OutcomeClass(outcome) = "ok")
          /\ classesSeen' = classesSeen \cup {OutcomeClass(outcome)}
          /\ IF r.is_success
             THEN /\ pollPc' = "done"
                  /\ pollRet' = TRUE
                  /\ progress' = NoProgress
                  /\ nPolls' = nPolls + 1
             ELSE /\ pollPc' = "sleep"
                  /\ progress' = [shown |-> TRUE, attempt |-> attempt + 1,
                                  of |-> CPA_POLL_MAX_RETRIES, message |-> r.message]
                  /\ UNCHANGED <<pollRet, nPolls>>
    /\ UNCHANGED <<CPA_POLL_MAX_RETRIES, CPA_POLL_INTERVAL, attempt, slept, reported>>
    /\ UNCHANGED notCpa

\* time.sleep(CPA_POLL_INTERVAL) and the next value of the loop variable
CpaPollSleep ==
    /\ pollPc = "sleep"
    /\ slept' = slept + CPA_POLL_INTERVAL
    /\ attempt' = attempt + 1
    /\ pollPc' = "loop"
    /\ UNCHANGED <<CPA_POLL_MAX_RETRIES, CPA_POLL_INTERVAL, nChecks, pollRet,
                   lastOutcome, lastCheck, progress, okSeen, classesSeen,
                   reported, nPolls>>
    /\ UNCHANGED notCpa

\* the loop is exhausted (lines 274-276): return False
CpaPollTimeout ==
    /\ pollPc = "loop"
    /\ ~RangeHasNext(attempt, CPA_POLL_MAX_RETRIES)
    /\ pollPc' = "done"
    /\ pollRet' = FALSE
    /\ progress' = NoProgress
    /\ nPolls' = nPolls + 1
    /\ reported' = LET reason == RunReason(classesSeen)
                   IN IF reason \in FailureReasons
                      THEN [reported EXCEPT ![reason] = @ \cup {FALSE}]
                      ELSE reported
    /\ UNCHANGED <<CPA_POLL_MAX_RETRIES, CPA_POLL_INTERVAL, attempt, nChecks,
                   lastOutcome, lastCheck, slept, okSeen, classesSeen>>
    /\ UNCHANGED notCpa

CpaNext ==
    \/ CpaPollStart
    \/ \E outcome \in StatusOutcomes : CpaPollCheck(outcome)
    \/ CpaPollSleep
    \/ CpaPollTimeout

\* -------------------------------------------------------------------------
\* Properties of the polling
\* -------------------------------------------------------------------------
\* C4: a call none of whose status requests is answered ok makes exactly
\* CPA_POLL_MAX_RETRIES status requests and then returns False; every call
\* returns.
C4_BoundedPolling ==
    /\ [](pollPc = "done" /\ ~okSeen
            => nChecks = CPA_POLL_MAX_RETRIES /\ pollRet = FALSE)
    /\ [](pollPc = "loop" => <>(pollPc = "done"))

\* a call with a budget of 3 that met an exception, an HTTP error and a
\* non-ok status and has returned
C4_Witness ==
    /\ pollPc = "done"
    /\ CPA_POLL_MAX_RETRIES = 3
    /\ nChecks = 3
    /\ ~okSeen
    /\ classesSeen = {"network", "protocol", "rejected"}
    /\ slept = 3 * CPA_POLL_INTERVAL

\* a step that makes one status check
CheckStep == pollPc = "loop" /\ nChecks' = nChecks + 1

\* C33: the call returns True at the first status check that reports ok,
\* with no check and no wait after it; it never makes more than
\* CPA_POLL_MAX_RETRIES checks; after every other outcome of a check it
\* waits one interval and goes on with the next attempt.
C33_FirstOkEndsPolling ==
    /\ [](/\ nChecks <= CPA_POLL_MAX_RETRIES
          /\ (pollPc = "done" /\ pollRet) =>
                /\ OutcomeClass(lastOutcome) = "ok"
                /\ classesSeen \ {"ok"} = {} => nChecks = 1
                /\ nChecks = attempt + 1
                /\ slept = attempt * CPA_POLL_INTERVAL)
    /\ [][/\ CheckStep =>
               IF OutcomeClass(lastOutcome') = "ok"
               THEN pollPc' = "done" /\ pollRet' /\ slept' = slept
               ELSE pollPc' = "sleep" /\ pollRet' = pollRet /\ nPolls' = nPolls
          /\ pollPc = "sleep" =>
               /\ pollPc' = "loop"
               /\ attempt' = attempt + 1
               /\ slept' = slept + CPA_POLL_INTERVAL
               /\ nChecks' = nChecks
          /\ pollPc = "done" => (nChecks' = 0 /\ slept' = 0 /\ pollPc' = "loop")]_cpaVars

\* a call that met an exception and a pending status, waited twice and
\* returned True at its third check
C33_Witness ==
    /\ pollPc = "done"
    /\ pollRet
    /\ nChecks = 3
    /\ classesSeen = {"network", "pending", "ok"}
    /\ slept = 2 * CPA_POLL_INTERVAL

CALLBACK == "localhost:1455/auth/callback"

ParamNames == { <<"code">>, <<"x", "code">>, <<"state">> }

\* name, name= and name=v
ParamPairs ==
    UNION { { n, n \o <<"=">>, n \o <<"=", "v">> } : n \in ParamNames }
    \cup { <<"next", "=", CALLBACK>> }

RECURSIVE Queries(_)
Queries(n) ==
    IF n = 0 THEN { <<>> }
    ELSE Queries(n - 1)
         \cup { q \o <<"&">> \o p : q \in Queries(n - 1) \ { <<>> }, p \in ParamPairs }
         \cup ParamPairs

Fragments == { <<>>, <<"#", "code", "=", "v">> }

Urls ==
    { <<>> } \cup
    { <<"http://">> \o hp \o (IF q = <<>> THEN <<>> ELSE <<"?">> \o q) \o f :
        hp \in { <<CALLBACK>>, <<"example.com/cb">> },
        q \in Queries(MaxParams), f \in Fragments }

\* pattern in text
Contains(text, pattern) ==
    \E i \in 0..(Len(text) - Len(pattern)) :
        \A j \in 1..Len(pattern) : text[i + j] = pattern[j]

\* index of the first occurrence of a piece, 0 when there is none
IndexOf(text, piece) ==
    IF \E i \in 1..Len(text) : text[i] = piece
    THEN CHOOSE i \in 1..Len(text) :
            text[i] = piece /\ \A j \in 1..(i - 1) : text[j] # piece
    ELSE 0

\* text.split(sep)
RECURSIVE Split(_, _)
Split(text, sep) ==
    LET i == IndexOf(text, sep)
    IN IF i = 0 THEN << text >>
       ELSE << SubSeq(text, 1, i - 1) >> \o Split(SubSeq(text, i + 1, Len(text)), sep)

\* urlparse(url).query: the fragment is cut off at the first "#", then the
\* query is what follows the first "?"
UrlQuery(u) ==
    LET h == IndexOf(u, "#")
        nofrag == IF h = 0 THEN u ELSE SubSeq(u, 1, h - 1)
        q == IndexOf(nofrag, "?")
    IN IF q = 0 THEN <<>> ELSE SubSeq(nofrag, q + 1, Len(nofrag))

\* parse_qs(query) as the list of (name, value) pairs it keeps: a piece
\* without "=" or with an empty value is dropped (keep_blank_values=False)
RECURSIVE ParsePairs(_, _)
ParsePairs(pieces, i) ==
    IF i > Len(pieces) THEN <<>>
    ELSE LET name_value == pieces[i]
             e == IndexOf(name_value, "=")
         IN IF name_value = <<>> \/ e = 0 \/ e = Len(name_value)
            THEN ParsePairs(pieces, i + 1)
            ELSE << [name |-> SubSeq(name_value, 1, e - 1),
                     value |-> SubSeq(name_value, e + 1, Len(name_value))] >>
                 \o ParsePairs(pieces, i + 1)

parse_qs(query) == ParsePairs(Split(query, "&"), 1)

\* params.get(name, [None])[0]
FirstValue(params, name) ==
    LET hits == SelectSeq(params, LAMBDA p : p.name = name)
    IN IF hits = <<>> THEN None ELSE Some(hits[1].value)

\* cpa_service.py:279-304
extract_callback_info(u) ==
    IF u = <<>> THEN EmptyDict
    ELSE LET params == parse_qs(UrlQuery(u))
         IN [code |-> FirstValue(params, <<"code">>),
             scope |-> FirstValue(params, <<"scope">>),
             state |-> FirstValue(params, <<"state">>),
             full_url |-> u]

\* cpa_service.py:307-318
is_cpa_callback_url(u) ==
    IF u = <<>> THEN FALSE
    ELSE Contains(u, <<CALLBACK>>) /\ Contains(u, <<"code", "=">>)

\* s2a_service.py:455-466 (crs_service.py:228-247 is the same)
extract_code_from_url(u) ==
    IF u = <<>> THEN None
    ELSE FirstValue(parse_qs(UrlQuery(u)), <<"code">>)

\* s2a_service.py:469-473
is_s2a_callback_url(u) ==
    IF u = <<>> THEN FALSE
    ELSE Contains(u, <<CALLBACK>>) /\ Contains(u, <<"code", "=">>)

UrlIdle ==
    /\ url = <<>>
    /\ isCpa = Unset /\ isS2a = Unset /\ cpaInfo = Unset /\ s2aCode = Unset

UrlInit ==
    /\ url \in Urls
    /\ isCpa = Unset /\ isS2a = Unset /\ cpaInfo = Unset /\ s2aCode = Unset

IsCpaCallbackUrl ==
    /\ isCpa = Unset
    /\ isCpa' = SetTo(is_cpa_callback_url(url))
    /\ UNCHANGED <<url, isS2a, cpaInfo, s2aCode>>
    /\ UNCHANGED notUrl

IsS2aCallbackUrl ==
    /\ isS2a = Unset
    /\ isS2a' = SetTo(is_s2a_callback_url(url))
    /\ UNCHANGED <<url, isCpa, cpaInfo, s2aCode>>
    /\ UNCHANGED notUrl

ExtractCallbackInfo ==
    /\ cpaInfo = Unset
    /\ cpaInfo' = SetTo(extract_callback_info(url))
    /\ UNCHANGED <<url, isCpa, isS2a, s2aCode>>
    /\ UNCHANGED notUrl

ExtractCodeFromUrl ==
    /\ s2aCode = Unset
    /\ s2aCode' = SetTo(extract_code_from_url(url))
    /\ UNCHANGED <<url, isCpa, isS2a, cpaInfo>>
    /\ UNCHANGED notUrl

UrlNext ==
    \/ IsCpaCallbackUrl
    \/ IsS2aCallbackUrl
    \/ ExtractCallbackInfo
    \/ ExtractCodeFromUrl

\* -------------------------------------------------------------------------
\* Properties of the callback recognition
\* -------------------------------------------------------------------------
\* the URL is http://localhost:1455/auth/callback with or without query and
\* fragment
TargetsLocalRedirect(u) == Len(u) >= 2 /\ u[2] = CALLBACK

\* the query of the URL has a parameter code=... (its name is exactly code)
HasCodeParam(u) ==
    LET pieces == Split(UrlQuery(u), "&")
    IN \E i \in 1..Len(pieces) :
          /\ Len(pieces[i]) >= 2
          /\ pieces[i][1] = "code" /\ pieces[i][2] = "="

\* C6: a URL is recognised as a callback exactly when it targets the local
\* redirect and its query has a parameter named code, and for every
\* recognised URL the extractors return a code.
C6_CallbackRecognition ==
    /\ isCpa.set => (isCpa.val <=> (TargetsLocalRedirect(url) /\ HasCodeParam(url)))
    /\ isS2a.set => (isS2a.val <=> (TargetsLocalRedirect(url) /\ HasCodeParam(url)))
    /\ (isCpa.set /\ isCpa.val /\ cpaInfo.set) => ~Get(cpaInfo.val, "code", None).none
    /\ (isS2a.set /\ isS2a.val /\ s2aCode.set) => ~s2aCode.val.none

\* -------------------------------------------------------------------------
\* Existence checks of the adapters
\* -------------------------------------------------------------------------
JList(l) == [type |-> "list", list |-> l]

\* The ways a listing request ends.
Listings == {"ok", "ok_wrapped", "refused", "http_error", "not_json", "exception"}

\* GET {CRS_API_BASE}/admin/openai-accounts
CrsListResponse(how, accounts) ==
    CASE how = "ok" -> [kind |-> "response", status_code |-> 200,
                        body |-> Json([success |-> TRUE, data |-> accounts])]
      [] how = "ok_wrapped" -> [kind |-> "response", status_code |-> 200,
                        body |-> Json([success |-> TRUE, data |-> accounts])]
      [] how = "refused" -> [kind |-> "response", status_code |-> 200,
                        body |-> Json([success |-> FALSE])]
      [] how = "http_error" -> [kind |-> "response", status_code |-> 500,
                        body |-> NotJson]
      [] how = "not_json" -> [kind |-> "response", status_code |-> 200,
                        body |-> NotJson]
      [] OTHER -> [kind |-> "exception"]

\* GET {S2A_API_BASE}/admin/accounts: data is {"items": [...]} or a list
S2aListResponse(how, accounts) ==
    CASE how = "ok" -> [kind |-> "response", status_code |-> 200,
                        body |-> Json([code |-> 0, data |-> JObj([items |-> accounts])])]
      [] how = "ok_wrapped" -> [kind |-> "response", status_code |-> 200,
                        body |-> Json([code |-> 0, data |-> JList(accounts)])]
      [] how = "refused" -> [kind |-> "response", status_code |-> 200,
                        body |-> Json([code |-> 1])]
      [] how = "http_error" -> [kind |-> "response", status_code |-> 500,
                        body |-> NotJson]
      [] how = "not_json" -> [kind |-> "response", status_code |-> 200,
                        body |-> NotJson]
      [] OTHER -> [kind |-> "exception"]

\* GET /api/v1/admin/accounts?search=...: {"data": [...]} or
\* {"data": {"data": [...]}}
Sub2apiListResponse(how, accounts) ==
    CASE how = "ok" -> [kind |-> "response", status_code |-> 200,
                        body |-> Json([data |-> JList(accounts)])]
      [] how = "ok_wrapped" -> [kind |-> "response", status_code |-> 200,
                        body |-> Json([data |-> JObj([data |-> JList(accounts)])])]
      [] how = "refused" -> [kind |-> "response", status_code |-> 200,
                        body |-> Json([message |-> <<"x">>])]
      [] how = "http_error" -> [kind |-> "response", status_code |-> 500,
                        body |-> NotJson]
      [] how = "not_json" -> [kind |-> "response", status_code |-> 200,
                        body |-> NotJson]
      [] OTHER -> [kind |-> "exception"]

\* crs_service.py:250-273
crs_get_accounts(outcome) ==
    IF outcome.kind = "exception" THEN <<>>
    ELSE IF outcome.status_code = 200
    THEN IF ~outcome.body.valid THEN <<>>
         ELSE IF Get(outcome.body.obj, "success", FALSE)
              THEN Get(outcome.body.obj, "data", <<>>)
              ELSE <<>>
    ELSE <<>>

\* a variant that lower-cases the account name but not the email
crs_check_account_exists_raw_email(outcome, email) ==
    LET accounts == crs_get_accounts(outcome)
    IN \E i \in 1..Len(accounts) :
          Lower(Get(accounts[i], "name", <<>>)) = email

\* crs_service.py:276-291
crs_check_account_exists(outcome, email) ==
    LET accounts == crs_get_accounts(outcome)
    IN \E i \in 1..Len(accounts) :
          Lower(Get(accounts[i], "name", <<>>)) = Lower(email)

\* s2a_service.py:410-436
s2a_get_accounts(outcome) ==
    IF outcome.kind = "exception" THEN <<>>
    ELSE IF outcome.status_code = 200
    THEN IF ~outcome.body.valid THEN <<>>
         ELSE IF Get(outcome.body.obj, "code", 1) = 0
              THEN LET data == Get(outcome.body.obj, "data", JObj(EmptyDict))
                   IN IF data.type = "obj" /\ "items" \in DOMAIN data.obj
                      THEN Get(data.obj, "items", <<>>)
                      ELSE IF data.type = "list" THEN data.list
                      ELSE <<>>
              ELSE <<>>
    ELSE <<>>

\* a variant that looks at the account name only
s2a_check_account_exists_name_only(outcome, email) ==
    LET accounts == s2a_get_accounts(outcome)
    IN \E i \in 1..Len(accounts) :
          Lower(Get(accounts[i], "name", <<>>)) = Lower(email)

\* s2a_service.py:439-451
s2a_check_account_exists(outcome, email) ==
    LET accounts == s2a_get_accounts(outcome)
    IN \E i \in 1..Len(accounts) :
          LET account_name == Lower(Get(accounts[i], "name", <<>>))
              credentials == Get(accounts[i], "credentials", EmptyDict)
              account_email == Lower(Get(credentials, "email", <<>>))
          IN account_name = Lower(email) \/ account_email = Lower(email)

\* the for acc in items loop of sub2api_find_openai_oauth_account
RECURSIVE Sub2apiFindLoop(_, _, _)
Sub2apiFindLoop(items, i, email_lower) ==
    IF i > Len(items) THEN None
    ELSE LET acc == items[i]
             name == Lower(Strip(Get(acc, "name", <<>>)))
             cred_email == Lower(Strip(Get(Get(acc, "credentials", EmptyDict), "email", <<>>)))
             extra_email == Lower(Strip(Get(Get(acc, "extra", EmptyDict), "email", <<>>)))
         IN IF name = email_lower THEN Some(acc)
            ELSE IF "credentials" \in DOMAIN acc /\ cred_email = email_lower THEN Some(acc)
            ELSE IF "extra" \in DOMAIN acc /\ extra_email = email_lower THEN Some(acc)
            ELSE Sub2apiFindLoop(items, i + 1, email_lower)

\* sub2api_service.py:213-278
sub2api_find_openai_oauth_account(outcome, email) ==
    IF outcome.kind = "exception" THEN None
    ELSE IF outcome.status_code # 200 THEN None
    ELSE IF ~outcome.body.valid THEN None
    ELSE LET data == Get(outcome.body.obj, "data", JNone)
             items == IF data.type = "list" THEN data.list
                      ELSE IF data.type = "obj"
                      THEN LET inner == Get(data.obj, "data", JNone)
                           IN IF inner.type = "list" THEN inner.list ELSE <<>>
                      ELSE <<>>
         IN IF items = <<>> THEN None
            ELSE Sub2apiFindLoop(items, 1, Lower(Strip(email)))

\* the accounts a backend may hold: named by an email in either case, named
\* otherwise but carrying the email in credentials or extra, or without name
PoolAccountDicts ==
    { [name |-> n] : n \in { <<"f", "@", "b">>, <<"F", "@", "B">>, <<"g", "@", "b">> } }
    \cup { [name |-> <<"g", "@", "b">>, credentials |-> [email |-> e]] :
             e \in { <<"f", "@", "b">>, <<"F", "@", "B">>, <<"h", "@", "b">> } }
    \cup { [name |-> <<"g", "@", "b">>, extra |-> [email |-> <<"F", "@", "b">>]],
           [name |-> <<"f", "@", "b", " ">>],
           [credentials |-> [email |-> <<"f", "@", "b">>]] }

RECURSIVE ListsUpTo(_, _)
ListsUpTo(S, n) ==
    IF n = 0 THEN { <<>> }
    ELSE ListsUpTo(S, n - 1)
         \cup { Append(l, x) : l \in ListsUpTo(S, n - 1), x \in S }

QueryEmails == { <<"f", "@", "b">>, <<"F", "@", "b">> }

ExistsIdle ==
    /\ poolAccounts = <<>>
    /\ listing = "ok"
    /\ queryEmail = <<>>
    /\ crsExists = Unset /\ s2aExists = Unset /\ sub2Found = Unset

ExistsInit ==
    /\ poolAccounts \in ListsUpTo(PoolAccountDicts, MaxAccounts)
    /\ listing \in Listings
    /\ queryEmail \in QueryEmails
    /\ crsExists = Unset /\ s2aExists = Unset /\ sub2Found = Unset

CrsCheckAccountExists ==
    /\ crsExists = Unset
    /\ crsExists' = SetTo(crs_check_account_exists(
                             CrsListResponse(listing, poolAccounts), queryEmail))
    /\ UNCHANGED <<poolAccounts, listing, queryEmail, s2aExists, sub2Found>>
    /\ UNCHANGED notExists

S2aCheckAccountExists ==
    /\ s2aExists = Unset
    /\ s2aExists' = SetTo(s2a_check_account_exists(
                             S2aListResponse(listing, poolAccounts), queryEmail))
    /\ UNCHANGED <<poolAccounts, listing, queryEmail, crsExists, sub2Found>>
    /\ UNCHANGED notExists

Sub2apiFindAccount ==
    /\ sub2Found = Unset
    /\ sub2Found' = SetTo(sub2api_find_openai_oauth_account(
                             Sub2apiListResponse(listing, poolAccounts), queryEmail))
    /\ UNCHANGED <<poolAccounts, listing, queryEmail, crsExists, s2aExists>>
    /\ UNCHANGED notExists

ExistsNext ==
    \/ CrsCheckAccountExists
    \/ S2aCheckAccountExists
    \/ Sub2apiFindAccount

\* -------------------------------------------------------------------------
\* Properties of the existence checks
\* -------------------------------------------------------------------------
CasePairs == { <<"A", "a">>, <<"B", "b">>, <<"F", "f">>, <<"G", "g">>,
               <<"H", "h">>, <<"X", "x">>, <<"Y", "y">> }

\* two texts are equal up to the case of their letters
EqIgnoreCase(s, t) ==
    /\ Len(s) = Len(t)
    /\ \A i \in 1..Len(s) :
          s[i] = t[i] \/ <<s[i], t[i]>> \in CasePairs \/ <<t[i], s[i]>> \in CasePairs

ListObtained == listing \in {"ok", "ok_wrapped"}

NameMatches(acc, email) == "name" \in DOMAIN acc /\ EqIgnoreCase(acc.name, email)

CredentialMatches(acc, email) ==
    /\ "credentials" \in DOMAIN acc
    /\ EqIgnoreCase(acc.credentials.email, email)

SomeAccount(P(_)) == \E i \in 1..Len(poolAccounts) : P(poolAccounts[i])

Creations == {"created", "created_lost", "refused", "http_error", "exception"}

CrsCreateResponse(how, email) ==
    CASE how = "created" -> [kind |-> "response", status_code |-> 200,
                             body |-> Json([success |-> TRUE,
                                            data |-> [id |-> <<"i">>, name |-> email]])]
      [] how = "refused" -> [kind |-> "response", status_code |-> 200,
                             body |-> Json([success |-> FALSE])]
      [] how = "http_error" -> [kind |-> "response", status_code |-> 500,
                                body |-> NotJson]
      [] OTHER -> [kind |-> "exception"]

\* whether the backend stores the account of a create request that ends so
BackendCreates(how) == how \in {"created", "created_lost"}

\* crs_service.py:294-356.  listOutcome and createOutcome are what the two
\* requests produce if they are sent.  Returns the returned value and the
\* requests that were sent.
crs_add_team_owner(team_data, listOutcome, createOutcome) ==
    LET email == GetIn(team_data, "user", "email", <<>>)
        access_token == Get(team_data, "accessToken", <<>>)
    IN IF email = <<>> \/ access_token = <<>>
       THEN [ret |-> None, requests |-> <<>>]
       ELSE IF crs_check_account_exists(listOutcome, email)
       THEN [ret |-> None, requests |-> << [op |-> "list"] >>]
       ELSE LET sent == << [op |-> "list"], [op |-> "create", name |-> email] >>
            IN IF createOutcome.kind = "exception"
               THEN [ret |-> None, requests |-> sent]
               ELSE IF /\ createOutcome.status_code = 200
                       /\ createOutcome.body.valid
                       /\ Get(createOutcome.body.obj, "success", FALSE)
                       /\ "data" \in DOMAIN createOutcome.body.obj
               THEN [ret |-> Some(createOutcome.body.obj.data), requests |-> sent]
               ELSE [ret |-> None, requests |-> sent]

\* the accounts CRS may hold before the first run
CrsInitialBackends ==
    { <<>>,
      << [name |-> <<"a", "@", "y">>] >>,
      << [name |-> <<"A", "@", "Y">>] >>,
      << [name |-> <<"b", "@", "y">>] >> }

CrsIdle ==
    /\ INCLUDE_TEAM_OWNERS = FALSE
    /\ crsBackend = <<>>
    /\ syncPc = "idle"
    /\ syncRet = None
    /\ crsRequests = <<>>
    /\ nSyncs = 0

CrsInit ==
    /\ INCLUDE_TEAM_OWNERS \in BOOLEAN
    /\ crsBackend \in CrsInitialBackends
    /\ syncPc = "idle"
    /\ syncRet = None
    /\ crsRequests = <<>>
    /\ nSyncs = 0

\* The names bound in the module crs_service when one of its functions runs:
\* what it imports (lines 4-18), http_session (line 43) and its functions.
CrsServiceGlobals ==
    { "requests", "HTTPAdapter", "Retry", "urlparse", "parse_qs",
      "CRS_API_BASE", "CRS_ADMIN_TOKEN", "REQUEST_TIMEOUT", "USER_AGENT",
      "TEAMS", "PROXY_ENABLED", "get_proxy_dict", "log", "http_session",
      "create_session_with_retry", "build_crs_headers", "crs_generate_auth_url",
      "crs_exchange_code", "crs_add_account", "extract_code_from_url",
      "crs_get_accounts", "crs_check_account_exists", "crs_add_team_owner",
      "crs_sync_team_owners", "crs_verify_token" }

\* A call of crs_sync_team_owners (lines 359-383).  Line 365 reads the
\* global INCLUDE_TEAM_OWNERS, which crs_service does not import from config
\* (lines 9-17): the read raises NameError, so the call ends there and the
\* lines after it never run.
CrsSyncTeamOwners ==
    /\ nSyncs < MaxSyncs
    /\ "INCLUDE_TEAM_OWNERS" \notin CrsServiceGlobals
    /\ syncPc' = "raised"
    /\ syncRet' = None
    /\ crsRequests' = <<>>
    /\ nSyncs' = nSyncs + 1
    /\ UNCHANGED <<INCLUDE_TEAM_OWNERS, crsBackend>>
    /\ UNCHANGED notCrs

\* A call of crs_add_team_owner (lines 294-356) on the raw record of a team
CrsAddTeamOwner(i, listHow, createHow) ==
    /\ nSyncs < MaxSyncs
    /\ LET raw_data == Get(TEAMS[i], "raw", EmptyDict)
           email == GetIn(raw_data, "user", "email", <<>>)
           r == crs_add_team_owner(raw_data,
                                   CrsListResponse(listHow, crsBackend),
                                   CrsCreateResponse(createHow, email))
           created == /\ \E k \in 1..Len(r.requests) : r.requests[k].op = "create"
                      /\ BackendCreates(createHow)
       IN /\ crsRequests' =
                [k \in 1..Len(r.requests) |->
                    IF r.requests[k].op = "create"
                    THEN [op |-> "create", name |-> r.requests[k].name,
                          present |-> \E j \in 1..Len(crsBackend) :
                                         Lower(crsBackend[j].name) = Lower(email)]
                    ELSE r.requests[k]]
          /\ crsBackend' = IF created
                           THEN Append(crsBackend, [name |-> email])
                           ELSE crsBackend
          /\ syncRet' = r.ret
    /\ syncPc' = "added"
    /\ nSyncs' = nSyncs + 1
    /\ UNCHANGED INCLUDE_TEAM_OWNERS
    /\ UNCHANGED notCrs

CrsNext ==
    \/ CrsSyncTeamOwners
    \/ \E i \in 1..Len(TEAMS), listHow \in Listings, createHow \in Creations :
          CrsAddTeamOwner(i, listHow, createHow)

\* -------------------------------------------------------------------------
\* Properties of the CRS mirror
\* -------------------------------------------------------------------------
\* C31: crs_sync_team_owners returns 0 without a request when owner
\* inclusion is disabled or no team is loaded; otherwise it returns the
\* number of owners it created, and sends no create request for an owner
\* CRS holds.
C31_SyncReturnsCreatedCount ==
    syncPc \in {"done", "raised"} =>
        /\ syncPc = "done"
        /\ ~syncRet.none
        /\ IF ~INCLUDE_TEAM_OWNERS \/ Len(TEAMS) = 0
           THEN syncRet.val = 0 /\ crsRequests = <<>>
           ELSE /\ syncRet.val <= Cardinality({ k \in 1..Len(crsRequests) :
                                                  crsRequests[k].op = "create" })
                /\ \A k \in 1..Len(crsRequests) :
                      crsRequests[k].op = "create" => ~crsRequests[k].present

\* Every call of crs_sync_team_owners raises, with owner inclusion enabled
\* or not, and sends nothing.
SyncAlwaysRaises ==
    syncPc \in {"done", "raised"} => syncPc = "raised" /\ crsRequests = <<>>

\* C9: whatever the listing request answers, no create request is sent for
\* an email the backend already holds, and the backend never holds two
\* accounts for one email.
C9_NoCreateForPresentEmail ==
    /\ \A k \in 1..Len(crsRequests) :
          crsRequests[k].op = "create" => ~crsRequests[k].present
    /\ \A i, j \in 1..Len(crsBackend) :
          Lower(crsBackend[i].name) = Lower(crsBackend[j].name) => i = j

\* -------------------------------------------------------------------------
\* config.py: normalising one record of team.json
\* -------------------------------------------------------------------------
\* the dicts that have the key with one of the values, or do not have it
Opt(key, values) == { EmptyDict } \cup { key :> v : v \in values }

LegacyEmails == { <<"a", "@", "b">>, <<"a", "b">>, <<"@", "b">>,
                  <<"a", "@", "b", "@", "c">>, <<>> }

\* legacy records: "account" is an object
LegacyRecords ==
    { u @@ a @@ k :
        u \in Opt("user", { JObj(e) : e \in Opt("email", LegacyEmails) }),
        a \in { "account" :> JObj(i @@ o) :
                  i \in Opt("id", { <<"1">> }),
                  o \in Opt("organizationId", { <<"o", "1">> }) },
        k \in Opt("accessToken", { <<"t", "o", "k">> }) }

\* current records: "account" is an email string
CurrentRecords ==
    { a @@ k @@ z :
        a \in { "account" :> JStr(e) :
                  e \in { <<"x", "@", "y">>, <<"x", "y">>,
                          <<"x", "@", "y", "@", "z">>, <<>> } },
        k \in Opt("token", { <<>>, <<"t", "1">> }),
        z \in Opt("authorized", BOOLEAN) }

ParseIdle ==
    /\ rawTeam = EmptyDict
    /\ teamIndex = 0
    /\ parsedTeam = Unset

ParseInit ==
    /\ rawTeam \in LegacyRecords \cup CurrentRecords
    /\ teamIndex \in 0..MaxIndex
    /\ parsedTeam = Unset

\* config.py:173-175, one iteration
ParseTeamConfig ==
    /\ parsedTeam = Unset
    /\ parsedTeam' = SetTo(_parse_team_config(rawTeam, teamIndex))
    /\ UNCHANGED <<rawTeam, teamIndex>>
    /\ UNCHANGED notParse

ParseNext == ParseTeamConfig

\* -------------------------------------------------------------------------
\* Properties of the normalisation
\* -------------------------------------------------------------------------
IsLegacyRecord(t) == "account" \in DOMAIN t /\ t.account.type = "obj"

\* user.email of a record, None when the record has none
UserEmail(t) ==
    IF "user" \in DOMAIN t /\ "email" \in DOMAIN t.user.obj
    THEN Some(t.user.obj.email) ELSE None

\* p is the part of s before its first "@"
IsPartBeforeFirstAt(p, s) ==
    /\ Len(p) < Len(s)
    /\ \A i \in 1..Len(p) : p[i] = s[i] /\ p[i] # "@"
    /\ s[Len(p) + 1] = "@"

\* C10: a legacy record is normalised to auth_token = accessToken,
\* account_id = account.id, org_id = account.organizationId,
\* owner_email = user.email, format = old, and name = the part of user.email
\* before the first "@", or Team<index+1> when the email is missing or has
\* no "@".
C10_LegacyNormalization ==
    (parsedTeam.set /\ IsLegacyRecord(rawTeam)) =>
        LET team == parsedTeam.val
            email == UserEmail(rawTeam)
        IN /\ team.auth_token = Get(rawTeam, "accessToken", <<>>)
           /\ team.account_id = Get(rawTeam.account.obj, "id", <<>>)
           /\ team.org_id = Get(rawTeam.account.obj, "organizationId", <<>>)
           /\ team.format = "old"
           /\ team.owner_email = (IF email.none THEN <<>> ELSE email.val)
           /\ IF ~email.none /\ HasAt(email.val)
              THEN IsPartBeforeFirstAt(team.name, email.val)
              ELSE team.name = TeamN(teamIndex + 1)

\* the same without the clause on owner_email
LegacyNormalizationButOwnerEmail ==
    (parsedTeam.set /\ IsLegacyRecord(rawTeam)) =>
        LET team == parsedTeam.val
            email == UserEmail(rawTeam)
        IN /\ team.auth_token = Get(rawTeam, "accessToken", <<>>)
           /\ team.account_id = Get(rawTeam.account.obj, "id", <<>>)
           /\ team.org_id = Get(rawTeam.account.obj, "organizationId", <<>>)
           /\ team.format = "old"
           /\ ~email.none => team.owner_email = email.val
           /\ IF ~email.none /\ HasAt(email.val)
              THEN IsPartBeforeFirstAt(team.name, email.val)
              ELSE team.name = TeamN(teamIndex + 1)

\* C11: a current-format record whose account is the email string e is
\* normalised to owner_email = e, name = the part of e before the first "@",
\* auth_token = token, authorized = the record's flag (false when absent),
\* and needs_login is true exactly when the token is missing or empty.
C11_CurrentNormalization ==
    (parsedTeam.set /\ ~IsLegacyRecord(rawTeam)) =>
        LET team == parsedTeam.val
            e == rawTeam.account.str
        IN /\ team.owner_email = e
           /\ HasAt(e) => IsPartBeforeFirstAt(team.name, e)
           /\ team.auth_token = Get(rawTeam, "token", <<>>)
           /\ team.authorized = Get(rawTeam, "authorized", FALSE)
           /\ team.needs_login <=>
                 ("token" \notin DOMAIN rawTeam \/ rawTeam.token = <<>>)
           /\ team.format = "new"

\* {"account": "x@y@z", "token": "t1", "authorized": true} has been
\* normalised: name x, no login needed, authorized
C11_Witness ==
    /\ parsedTeam.set
    /\ ~IsLegacyRecord(rawTeam)
    /\ rawTeam.account.str = <<"x", "@", "y", "@", "z">>
    /\ "token" \in DOMAIN rawTeam /\ rawTeam.token = <<"t", "1">>
    /\ "authorized" \in DOMAIN rawTeam /\ rawTeam.authorized
    /\ parsedTeam.val.name = <<"x">>
    /\ ~parsedTeam.val.needs_login
    /\ parsedTeam.val.authorized

\* the fields every normalised Team has, and those of the current format
CommonFields == { "name", "account_id", "org_id", "auth_token", "owner_email",
                  "owner_password", "format", "raw" }
CurrentOnlyFields == { "needs_login", "authorized" }

Truthy(v) == v.type = "str" /\ v.str # <<>>

\* a or b
Or(a, b) == IF Truthy(a) THEN a ELSE b

\* the pair a generate function returns
Pair(auth_url, token) == [url |-> auth_url, token |-> token]
NonePair == Pair(JNone, JNone)

\* the values a field of the answer may carry: null, "" or a text
FieldValues == { JNone, JStr(<<>>), JStr(<<"u">>) }

\* the answer's url and token: each missing, null, empty or set
GenFieldSets ==
    { u @@ t : u \in Opt("url", FieldValues), t \in Opt("token", FieldValues) }

GenHows == { "ok", "ok_flat", "refused", "no_data", "unauthorized",
             "http_error", "not_json", "exception" }

\* the dict with the generic keys url and token renamed
Renamed(fields, urlKey, tokenKey) ==
    (IF "url" \in DOMAIN fields THEN urlKey :> fields.url ELSE EmptyDict)
    @@ (IF "token" \in DOMAIN fields THEN tokenKey :> fields.token ELSE EmptyDict)

\* what http_session answers when the body (a JSON object) is not reached
FailedResponse(how) ==
    CASE how = "unauthorized" -> [kind |-> "response", status_code |-> 401,
                                  body |-> NotJson]
      [] how = "http_error" -> [kind |-> "response", status_code |-> 500,
                                body |-> NotJson]
      [] how = "not_json" -> [kind |-> "response", status_code |-> 200,
                              body |-> NotJson]
      [] OTHER -> [kind |-> "exception"]

\* POST {CRS_API_BASE}/admin/openai-accounts/generate-auth-url
CrsGenResponse(how, fields) ==
    CASE how \in {"ok", "ok_flat"} ->
            [kind |-> "response", status_code |-> 200,
             body |-> Json([success |-> TRUE,
                            data |-> JObj(Renamed(fields, "authUrl", "sessionId"))])]
      [] how = "refused" ->
            [kind |-> "response", status_code |-> 200,
             body |-> Json([success |-> FALSE])]
      [] how = "no_data" ->
            [kind |-> "response", status_code |-> 200,
             body |-> Json([success |-> TRUE, data |-> JNone])]
      [] OTHER -> FailedResponse(how)

\* GET {CPA_API_BASE}/v0/management/codex-auth-url
CpaGenResponse(how, fields) ==
    CASE how \in {"ok", "ok_flat"} ->
            [kind |-> "response", status_code |-> 200,
             body |-> Json(Renamed(fields, "url", "state"))]
      [] how \in {"refused", "no_data"} ->
            [kind |-> "response", status_code |-> 200, body |-> Json(EmptyDict)]
      [] OTHER -> FailedResponse(how)

\* POST {S2A_API_BASE}/admin/openai/generate-auth-url
S2aGenResponse(how, fields) ==
    CASE how \in {"ok", "ok_flat"} ->
            [kind |-> "response", status_code |-> 200,
             body |-> Json([code |-> 0,
                            data |-> JObj(Renamed(fields, "auth_url", "session_id"))])]
      [] how = "refused" ->
            [kind |-> "response", status_code |-> 200, body |-> Json([code |-> 1])]
      [] how = "no_data" ->
            [kind |-> "response", status_code |-> 200,
             body |-> Json([code |-> 0, data |-> JNone])]
      [] OTHER -> FailedResponse(how)

\* POST /api/v1/admin/openai/generate-auth-url: the fields wrapped in "data"
\* (snake case) or at top level (camel case)
Sub2apiGenResponse(how, fields) ==
    CASE how = "ok" ->
            [kind |-> "response", status_code |-> 200,
             body |-> Json([data |-> JObj(Renamed(fields, "auth_url", "session_id"))])]
      [] how = "ok_flat" ->
            [kind |-> "response", status_code |-> 200,
             body |-> Json(Renamed(fields, "authUrl", "sessionId"))]
      [] how \in {"refused", "no_data"} ->
            [kind |-> "response", status_code |-> 200,
             body |-> Json([data |-> JNone])]
      [] OTHER -> FailedResponse(how)

\* crs_service.py:112-141.  result["data"]["authUrl"] raises on a missing
\* key and on a data that is not a dict, session_id[:16] raises on None;
\* the except clause turns each of them into (None, None).
crs_generate_auth_url(outcome) ==
    IF outcome.kind = "exception" THEN NonePair
    ELSE IF outcome.status_code = 200
    THEN IF ~outcome.body.valid THEN NonePair
         ELSE LET result == outcome.body.obj
              IN IF Get(result, "success", FALSE)
                 THEN IF "data" \notin DOMAIN result \/ result.data.type # "obj"
                      THEN NonePair
                      ELSE LET data == result.data.obj
                           IN IF "authUrl" \notin DOMAIN data
                                 \/ "sessionId" \notin DOMAIN data
                              THEN NonePair
                              ELSE IF data.sessionId.type # "str"
                              THEN NonePair
                              ELSE Pair(data.authUrl, data.sessionId)
                 ELSE NonePair
    ELSE NonePair

\* cpa_service.py:122-164
cpa_generate_auth_url(outcome) ==
    IF outcome.kind = "exception" THEN NonePair
    ELSE IF outcome.status_code = 200
    THEN IF ~outcome.body.valid THEN NonePair
         ELSE LET result == outcome.body.obj
                  auth_url == Get(result, "url", JNone)
                  state == Get(result, "state", JNone)
              IN IF Truthy(auth_url) /\ Truthy(state)
                 THEN Pair(auth_url, state)
                 ELSE NonePair
    ELSE NonePair

\* s2a_service.py:236-272.  data.get raises on a data that is null.
s2a_generate_auth_url(outcome) ==
    IF outcome.kind = "exception" THEN NonePair
    ELSE IF outcome.status_code = 200
    THEN IF ~outcome.body.valid THEN NonePair
         ELSE LET result == outcome.body.obj
              IN IF Get(result, "code", 1) = 0
                 THEN LET data == Get(result, "data", JObj(EmptyDict))
                      IN IF data.type # "obj" THEN NonePair
                         ELSE LET auth_url == Get(data.obj, "auth_url", JNone)
                                  session_id == Get(data.obj, "session_id", JNone)
                              IN IF Truthy(auth_url) /\ Truthy(session_id)
                                 THEN Pair(auth_url, session_id)
                                 ELSE NonePair
                 ELSE NonePair
    ELSE NonePair

\* sub2api_service.py:74-89
_unwrap_response_json(payload) ==
    IF "data" \in DOMAIN payload THEN payload.data ELSE JObj(payload)

\* sub2api_service.py:101-140
sub2api_generate_openai_auth_url(outcome) ==
    IF outcome.kind = "exception" THEN NonePair
    ELSE IF outcome.status_code = 200
    THEN IF ~outcome.body.valid THEN NonePair
         ELSE LET data == _unwrap_response_json(outcome.body.obj)
              IN IF data.type = "obj"
                 THEN LET auth_url == Or(Get(data.obj, "auth_url", JNone),
                                         Get(data.obj, "authUrl", JNone))
                          session_id == Or(Get(data.obj, "session_id", JNone),
                                           Get(data.obj, "sessionId", JNone))
                      IN IF Truthy(auth_url) /\ Truthy(session_id)
                         THEN Pair(auth_url, session_id)
                         ELSE NonePair
                 ELSE NonePair
    ELSE NonePair

GenIdle ==
    /\ genHow = "ok"
    /\ genFields = EmptyDict
    /\ crsGen = Unset /\ cpaGen = Unset /\ s2aGen = Unset /\ sub2Gen = Unset

GenInit ==
    /\ genHow \in GenHows
    /\ genFields \in GenFieldSets
    /\ crsGen = Unset /\ cpaGen = Unset /\ s2aGen = Unset /\ sub2Gen = Unset

CrsGenerateAuthUrl ==
    /\ crsGen = Unset
    /\ crsGen' = SetTo(crs_generate_auth_url(CrsGenResponse(genHow, genFields)))
    /\ UNCHANGED <<genHow, genFields, cpaGen, s2aGen, sub2Gen>>
    /\ UNCHANGED notGen

CpaGenerateAuthUrl ==
    /\ cpaGen = Unset
    /\ cpaGen' = SetTo(cpa_generate_auth_url(CpaGenResponse(genHow, genFields)))
    /\ UNCHANGED <<genHow, genFields, crsGen, s2aGen, sub2Gen>>
    /\ UNCHANGED notGen

S2aGenerateAuthUrl ==
    /\ s2aGen = Unset
    /\ s2aGen' = SetTo(s2a_generate_auth_url(S2aGenResponse(genHow, genFields)))
    /\ UNCHANGED <<genHow, genFields, crsGen, cpaGen, sub2Gen>>
    /\ UNCHANGED notGen

Sub2apiGenerateAuthUrl ==
    /\ sub2Gen = Unset
    /\ sub2Gen' = SetTo(sub2api_generate_openai_auth_url(
                           Sub2apiGenResponse(genHow, genFields)))
    /\ UNCHANGED <<genHow, genFields, crsGen, cpaGen, s2aGen>>
    /\ UNCHANGED notGen

GenNext ==
    \/ CrsGenerateAuthUrl
    \/ CpaGenerateAuthUrl
    \/ S2aGenerateAuthUrl
    \/ Sub2apiGenerateAuthUrl

\* -------------------------------------------------------------------------
\* Properties of generate_auth_url
\* -------------------------------------------------------------------------
\* a pair with both components non-empty, or exactly (None, None)
WholeOrNone(r) == r.set => (r.val = NonePair \/ (Truthy(r.val.url) /\ Truthy(r.val.token)))

\* the answer reached the caller with a usable url and a usable token
AnswerComplete ==
    /\ genHow \in {"ok", "ok_flat"}
    /\ "url" \in DOMAIN genFields /\ Truthy(genFields.url)
    /\ "token" \in DOMAIN genFields /\ Truthy(genFields.token)

\* C13: for every adapter (CRS, CPA, S2A, Sub2API) generate_auth_url returns
\* either a pair (url, token) with both components non-empty or exactly
\* (None, None); a non-200 status, an exception or an answer lacking the url
\* or the token yields (None, None).
C13_AuthUrlWholeOrNone ==
    /\ WholeOrNone(crsGen) /\ WholeOrNone(cpaGen)
    /\ WholeOrNone(s2aGen) /\ WholeOrNone(sub2Gen)
    /\ ~AnswerComplete =>
          /\ crsGen.set => crsGen.val = NonePair
          /\ cpaGen.set => cpaGen.val = NonePair
          /\ s2aGen.set => s2aGen.val = NonePair
          /\ sub2Gen.set => sub2Gen.val = NonePair

\* the same for the three adapters that test the two components
AuthUrlWholeOrNoneButCrs ==
    /\ WholeOrNone(cpaGen) /\ WholeOrNone(s2aGen) /\ WholeOrNone(sub2Gen)
    /\ ~AnswerComplete =>
          /\ cpaGen.set => cpaGen.val = NonePair
          /\ s2aGen.set => s2aGen.val = NonePair
          /\ sub2Gen.set => sub2Gen.val = NonePair

\* -------------------------------------------------------------------------
\* crs_service.py, s2a_service.py: what a call hands back to its caller
\* -------------------------------------------------------------------------
\* The existence checks above run on listings whose names are texts.  Here
\* the same loops run on accounts as response.json() returns them, where a
\* field may also be null, and a call either returns a value or lets an
\* exception escape to its caller.
Raised == [raised |-> TRUE]
Returned(v) == [raised |-> FALSE, val |-> v]

BndEmail == <<"a", "@", "y">>

\* listed accounts: name and credentials each missing, null or set
JsonAccountDicts ==
    { n @@ c :
        n \in Opt("name", { JNone, JStr(BndEmail) }),
        c \in Opt("credentials", { JNone, JObj([email |-> JStr(BndEmail)]) }) }

\* the for loop of crs_check_account_exists (crs_service.py:287-291), which
\* is outside any try: None.lower() raises AttributeError
RECURSIVE CrsExistsLoop(_, _, _)
CrsExistsLoop(accounts, i, email) ==
    IF i > Len(accounts) THEN Returned(FALSE)
    ELSE LET name == Get(accounts[i], "name", JStr(<<>>))
         IN IF name.type # "str" THEN Raised
            ELSE IF Lower(name.str) = Lower(email) THEN Returned(TRUE)
            ELSE CrsExistsLoop(accounts, i + 1, email)

\* crs_check_account_exists as a call (crs_service.py:276-291)
CrsCheckAccountExistsCall(outcome, email) ==
    CrsExistsLoop(crs_get_accounts(outcome), 1, email)

\* the for loop of s2a_check_account_exists (s2a_service.py:443-451):
\* None.lower() and None.get raise AttributeError
RECURSIVE S2aExistsLoop(_, _, _)
S2aExistsLoop(accounts, i, email) ==
    IF i > Len(accounts) THEN Returned(FALSE)
    ELSE LET name == Get(accounts[i], "name", JStr(<<>>))
             credentials == Get(accounts[i], "credentials", JObj(EmptyDict))
         IN IF name.type # "str" THEN Raised
            ELSE IF credentials.type # "obj" THEN Raised
            ELSE LET account_email == Get(credentials.obj, "email", JStr(<<>>))
                 IN IF account_email.type # "str" THEN Raised
                    ELSE IF Lower(name.str) = Lower(email)
                            \/ Lower(account_email.str) = Lower(email)
                    THEN Returned(TRUE)
                    ELSE S2aExistsLoop(accounts, i + 1, email)

\* s2a_check_account_exists as a call (s2a_service.py:439-451)
S2aCheckAccountExistsCall(outcome, email) ==
    S2aExistsLoop(s2a_get_accounts(outcome), 1, email)

\* the for loop of crs_sync_team_owners (crs_service.py:374-383) with
\* crs_add_team_owner (crs_service.py:303-356) inlined: the existence check
\* at line 311 is outside the try of crs_add_team_owner, and
\* crs_sync_team_owners has no try
RECURSIVE CrsSyncLoopCall(_, _, _, _)
CrsSyncLoopCall(i, count, listOutcome, createOk) ==
    IF i > Len(TEAMS) THEN Returned(count)
    ELSE LET raw_data == TEAMS[i].raw
             email == GetIn(raw_data, "user", "email", <<>>)
             access_token == Get(raw_data, "accessToken", <<>>)
         IN IF email = <<>> \/ access_token = <<>>
            THEN CrsSyncLoopCall(i + 1, count, listOutcome, createOk)
            ELSE LET exists == CrsCheckAccountExistsCall(listOutcome, email)
                 IN IF exists.raised THEN Raised
                    ELSE IF exists.val \/ ~createOk
                    THEN CrsSyncLoopCall(i + 1, count, listOutcome, createOk)
                    ELSE CrsSyncLoopCall(i + 1, count + 1, listOutcome, createOk)

\* crs_sync_team_owners as a call (crs_service.py:359-383)
CrsSyncTeamOwnersCall(names, include, listOutcome, createOk) ==
    IF "INCLUDE_TEAM_OWNERS" \notin names THEN Raised
    ELSE IF ~include THEN Returned(0)
    ELSE IF Len(TEAMS) = 0 THEN Returned(0)
    ELSE CrsSyncLoopCall(1, 0, listOutcome, createOk)

BndIdle ==
    /\ bndAccounts = <<>>
    /\ bndListing = "ok"
    /\ bndInclude = FALSE
    /\ bndCreateOk = FALSE
    /\ crsExistsCall = Unset /\ s2aExistsCall = Unset /\ crsSyncCall = Unset

BndInit ==
    /\ bndAccounts \in ListsUpTo(JsonAccountDicts, MaxListed)
    /\ bndListing \in Listings
    /\ bndInclude \in BOOLEAN
    /\ bndCreateOk \in BOOLEAN
    /\ crsExistsCall = Unset /\ s2aExistsCall = Unset /\ crsSyncCall = Unset

CallCrsCheckAccountExists ==
    /\ crsExistsCall = Unset
    /\ crsExistsCall' = SetTo(CrsCheckAccountExistsCall(
                                 CrsListResponse(bndListing, bndAccounts), BndEmail))
    /\ UNCHANGED <<bndAccounts, bndListing, bndInclude, bndCreateOk,
                   s2aExistsCall, crsSyncCall>>
    /\ UNCHANGED notBnd

CallS2aCheckAccountExists ==
    /\ s2aExistsCall = Unset
    /\ s2aExistsCall' = SetTo(S2aCheckAccountExistsCall(
                                 S2aListResponse(bndListing, bndAccounts), BndEmail))
    /\ UNCHANGED <<bndAccounts, bndListing, bndInclude, bndCreateOk,
                   crsExistsCall, crsSyncCall>>
    /\ UNCHANGED notBnd

CallCrsSyncTeamOwners ==
    /\ crsSyncCall = Unset
    /\ crsSyncCall' = SetTo(CrsSyncTeamOwnersCall(
                               CrsServiceGlobals, bndInclude, CrsListResponse(bndListing, bndAccounts),
                               bndCreateOk))
    /\ UNCHANGED <<bndAccounts, bndListing, bndInclude, bndCreateOk,
                   crsExistsCall, s2aExistsCall>>
    /\ UNCHANGED notBnd

BndNext ==
    \/ CallCrsCheckAccountExists
    \/ CallS2aCheckAccountExists
    \/ CallCrsSyncTeamOwners

\* -------------------------------------------------------------------------
\* Properties of the adapter boundary
\* -------------------------------------------------------------------------
\* C14: no adapter operation raises past its boundary: for every backend
\* outcome, null or missing fields in listed accounts included, account-exists
\* and crs_sync_team_owners return an explicit value to their caller.
C14_NothingEscapes ==
    /\ crsExistsCall.set => ~crsExistsCall.val.raised
    /\ s2aExistsCall.set => ~s2aExistsCall.val.raised
    /\ crsSyncCall.set => ~crsSyncCall.val.raised

\* the existence checks raise nothing for listings that were not obtained
\* or whose accounts carry texts in name and credentials.email;
\* crs_sync_team_owners raises for every listing (NameError at line 365)
NothingEscapesWithoutNulls ==
    /\ (\/ bndListing \notin {"ok", "ok_wrapped"}
        \/ \A i \in 1..Len(bndAccounts) :
              /\ Get(bndAccounts[i], "name", JStr(<<>>)).type = "str"
              /\ Get(bndAccounts[i], "credentials", JObj(EmptyDict)).type = "obj")
       => /\ crsExistsCall.set => ~crsExistsCall.val.raised
          /\ s2aExistsCall.set => ~s2aExistsCall.val.raised
    /\ crsSyncCall.set => crsSyncCall.val.raised

\* -------------------------------------------------------------------------
\* crs/cpa/s2a_service.py: verifying the connection at startup
\* -------------------------------------------------------------------------
\* A message is kept as the literal text of its f-string (rendered in
\* English, the placeholder in braces) and the value filling the placeholder.
\* The result also counts the HTTP requests the call issued.
VerifyResult(ok, message, requests) ==
    [ok |-> ok, message |-> message, requests |-> requests]

\* how the request of a verify call ends; the three exception classes are
\* requests.exceptions.Timeout, requests.exceptions.ConnectionError and any
\* other Exception
VerifyHows == { "ok", "ok_odd", "refused", "not_json", "unauthorized",
                "forbidden", "http_error", "timeout", "connection", "exception" }

\* GET {CRS_API_BASE}/admin/openai-accounts
CrsVerifyResponse(how) ==
    CASE how = "ok" -> [kind |-> "response", status_code |-> 200,
                        body |-> Json([success |-> TRUE, data |-> <<[name |-> <<"n">>]>>])]
      [] how = "ok_odd" -> [kind |-> "response", status_code |-> 200,
                        body |-> Json([success |-> TRUE])]
      [] how = "refused" -> [kind |-> "response", status_code |-> 200,
                        body |-> Json([success |-> FALSE, message |-> <<"m">>])]
      [] how = "not_json" -> [kind |-> "response", status_code |-> 200, body |-> NotJson]
      [] how = "unauthorized" -> [kind |-> "response", status_code |-> 401, body |-> NotJson]
      [] how = "forbidden" -> [kind |-> "response", status_code |-> 403, body |-> NotJson]
      [] how = "http_error" -> [kind |-> "response", status_code |-> 500, body |-> NotJson]
      [] how = "timeout" -> [kind |-> "Timeout"]
      [] how = "connection" -> [kind |-> "ConnectionError"]
      [] OTHER -> [kind |-> "Exception"]

\* GET {CPA_API_BASE}/v0/management/codex-auth-url
CpaVerifyResponse(how) ==
    CASE how = "ok" -> [kind |-> "response", status_code |-> 200,
                        body |-> Json([url |-> JStr(<<"u">>), state |-> JStr(<<"s">>)])]
      [] how \in {"ok_odd", "refused"} ->
                       [kind |-> "response", status_code |-> 200, body |-> Json(EmptyDict)]
      [] OTHER -> CrsVerifyResponse(how)

\* GET {S2A_API_BASE}/admin/groups
S2aVerifyResponse(how) ==
    CASE how \in {"ok", "ok_odd"} ->
                       [kind |-> "response", status_code |-> 200, body |-> Json([code |-> 0])]
      [] how = "refused" -> [kind |-> "response", status_code |-> 200,
                        body |-> Json([code |-> 1, message |-> <<"m">>])]
      [] OTHER -> CrsVerifyResponse(how)

\* a variant that reports a connection failure with the text of a timeout
crs_verify_token_same_network_text(base, token, outcome) ==
    IF base = <<>> THEN VerifyResult(FALSE, [text |-> "CRS_API_BASE not configured"], 0)
    ELSE IF token = <<>>
    THEN VerifyResult(FALSE, [text |-> "CRS_ADMIN_TOKEN not configured"], 0)
    ELSE IF outcome.kind \in {"Timeout", "ConnectionError"}
    THEN VerifyResult(FALSE, [text |-> "CRS connection timed out ({})", base |-> base], 1)
    ELSE IF outcome.kind = "Exception"
    THEN VerifyResult(FALSE, [text |-> "verification exception: {}"], 1)
    ELSE IF outcome.status_code = 200
    THEN IF ~outcome.body.valid
         THEN VerifyResult(FALSE, [text |-> "verification exception: {}"], 1)
         ELSE IF Get(outcome.body.obj, "success", FALSE)
              THEN VerifyResult(TRUE, [text |-> "Token valid (CRS holds {} accounts)",
                                       count |-> Len(Get(outcome.body.obj, "data", <<>>))], 1)
              ELSE VerifyResult(FALSE, [text |-> "API returned failure: {}",
                                        detail |-> Get(outcome.body.obj, "message",
                                                       <<"Unknown error">>)], 1)
    ELSE IF outcome.status_code = 401
    THEN VerifyResult(FALSE, [text |-> "Token invalid or expired (HTTP 401 Unauthorized)"], 1)
    ELSE IF outcome.status_code = 403
    THEN VerifyResult(FALSE, [text |-> "Token lacks permission (HTTP 403 Forbidden)"], 1)
    ELSE VerifyResult(FALSE, [text |-> "CRS service error (HTTP {})",
                              code |-> outcome.status_code], 1)

\* crs_service.py:58-109
crs_verify_token(base, token, outcome) ==
    IF base = <<>> THEN VerifyResult(FALSE, [text |-> "CRS_API_BASE not configured"], 0)
    ELSE IF token = <<>>
    THEN VerifyResult(FALSE, [text |-> "CRS_ADMIN_TOKEN not configured"], 0)
    ELSE IF outcome.kind = "Timeout"
    THEN VerifyResult(FALSE, [text |-> "CRS connection timed out ({})", base |-> base], 1)
    ELSE IF outcome.kind = "ConnectionError"
    THEN VerifyResult(FALSE, [text |-> "cannot connect to CRS ({})", base |-> base], 1)
    ELSE IF outcome.kind = "Exception"
    THEN VerifyResult(FALSE, [text |-> "verification exception: {}"], 1)
    ELSE IF outcome.status_code = 200
    THEN IF ~outcome.body.valid
         THEN VerifyResult(FALSE, [text |-> "verification exception: {}"], 1)
         ELSE IF Get(outcome.body.obj, "success", FALSE)
              THEN VerifyResult(TRUE, [text |-> "Token valid (CRS holds {} accounts)",
                                       count |-> Len(Get(outcome.body.obj, "data", <<>>))], 1)
              ELSE VerifyResult(FALSE, [text |-> "API returned failure: {}",
                                        detail |-> Get(outcome.body.obj, "message",
                                                       <<"Unknown error">>)], 1)
    ELSE IF outcome.status_code = 401
    THEN VerifyResult(FALSE, [text |-> "Token invalid or expired (HTTP 401 Unauthorized)"], 1)
    ELSE IF outcome.status_code = 403
    THEN VerifyResult(FALSE, [text |-> "Token lacks permission (HTTP 403 Forbidden)"], 1)
    ELSE VerifyResult(FALSE, [text |-> "CRS service error (HTTP {})",
                              code |-> outcome.status_code], 1)

\* cpa_service.py:68-119
cpa_verify_connection(base, password, outcome) ==
    IF base = <<>> THEN VerifyResult(FALSE, [text |-> "CPA_API_BASE not configured"], 0)
    ELSE IF password = <<>>
    THEN VerifyResult(FALSE, [text |-> "CPA_ADMIN_PASSWORD not configured"], 0)
    ELSE IF outcome.kind = "Timeout"
    THEN VerifyResult(FALSE, [text |-> "CPA connection timed out ({})", base |-> base], 1)
    ELSE IF outcome.kind = "ConnectionError"
    THEN VerifyResult(FALSE, [text |-> "cannot connect to CPA ({})", base |-> base], 1)
    ELSE IF outcome.kind = "Exception"
    THEN VerifyResult(FALSE, [text |-> "verification exception: {}"], 1)
    ELSE IF outcome.status_code = 200
    THEN IF ~outcome.body.valid
         THEN VerifyResult(FALSE, [text |-> "verification exception: {}"], 1)
         ELSE IF /\ Truthy(Get(outcome.body.obj, "url", JNone))
                 /\ Truthy(Get(outcome.body.obj, "state", JNone))
              THEN VerifyResult(TRUE, [text |-> "service connection normal"], 1)
              ELSE VerifyResult(TRUE, [text |-> "service connection normal (response format may have changed)"], 1)
    ELSE IF outcome.status_code = 401
    THEN VerifyResult(FALSE, [text |-> "admin password invalid (HTTP 401 Unauthorized)"], 1)
    ELSE IF outcome.status_code = 403
    THEN VerifyResult(FALSE, [text |-> "permission denied (HTTP 403 Forbidden)"], 1)
    ELSE VerifyResult(FALSE, [text |-> "CPA service error (HTTP {})",
                              code |-> outcome.status_code], 1)

\* s2a_service.py:80-92, the name of the credential in use
get_auth_method(key, token) ==
    IF key # <<>> THEN "Admin API Key"
    ELSE IF token # <<>> THEN "JWT Token"
    ELSE "None"

\* how s2a_resolve_group_ids(silent=True) ends inside the verify call: from
\* the cache or the configured ids, after one listing request, or by raising
GroupResolutions == { "local", "listed", "raises" }

\* s2a_service.py:177-232
s2a_verify_connection(base, key, token, outcome, groups) ==
    IF base = <<>> THEN VerifyResult(FALSE, [text |-> "S2A_API_BASE not configured"], 0)
    ELSE IF key = <<>> /\ token = <<>>
    THEN VerifyResult(FALSE, [text |-> "S2A_ADMIN_KEY or S2A_ADMIN_TOKEN not configured"], 0)
    ELSE LET auth_method == get_auth_method(key, token)
         IN IF outcome.kind = "Timeout"
            THEN VerifyResult(FALSE, [text |-> "connection timed out ({})", base |-> base], 1)
            ELSE IF outcome.kind = "ConnectionError"
            THEN VerifyResult(FALSE, [text |-> "cannot connect to service ({})", base |-> base], 1)
            ELSE IF outcome.kind = "Exception"
            THEN VerifyResult(FALSE, [text |-> "verification exception: {}"], 1)
            ELSE IF outcome.status_code = 200
            THEN IF ~outcome.body.valid
                 THEN VerifyResult(FALSE, [text |-> "verification exception: {}"], 1)
                 ELSE IF Get(outcome.body.obj, "code", 1) = 0
                      THEN IF groups = "raises"
                           THEN VerifyResult(FALSE, [text |-> "verification exception: {}"], 2)
                           ELSE VerifyResult(TRUE, [text |-> "authentication valid (method: {})",
                                                    method |-> auth_method],
                                             IF groups = "listed" THEN 2 ELSE 1)
                      ELSE VerifyResult(FALSE, [text |-> "API returned failure: {}",
                                                detail |-> Get(outcome.body.obj, "message",
                                                               <<"Unknown error">>)], 1)
            ELSE IF outcome.status_code = 401
            THEN VerifyResult(FALSE, [text |-> "{} invalid or expired (HTTP 401)",
                                      method |-> auth_method], 1)
            ELSE IF outcome.status_code = 403
            THEN VerifyResult(FALSE, [text |-> "{} lacks permission (HTTP 403)",
                                      method |-> auth_method], 1)
            ELSE VerifyResult(FALSE, [text |-> "service error (HTTP {})",
                                      code |-> outcome.status_code], 1)

\* configured values: empty (not configured) or set
ConfigTexts == { <<>>, <<"c">> }

VfyIdle ==
    /\ vfyAdapter = "crs"
    /\ vfyLog = <<>>

VfyInit ==
    /\ vfyAdapter \in { "crs", "cpa", "s2a" }
    /\ vfyLog = <<>>

\* one run of the program configured for CRS calls crs_verify_token
CrsVerifyToken ==
    /\ vfyAdapter = "crs"
    /\ Len(vfyLog) < MaxVerifies
    /\ \E base \in ConfigTexts, token \in ConfigTexts, how \in VerifyHows :
          vfyLog' = Append(vfyLog,
                       [configured |-> base # <<>> /\ token # <<>>,
                        how |-> how,
                        result |-> crs_verify_token(base, token, CrsVerifyResponse(how))])
    /\ UNCHANGED vfyAdapter
    /\ UNCHANGED notVfy

CpaVerifyConnection ==
    /\ vfyAdapter = "cpa"
    /\ Len(vfyLog) < MaxVerifies
    /\ \E base \in ConfigTexts, password \in ConfigTexts, how \in VerifyHows :
          vfyLog' = Append(vfyLog,
                       [configured |-> base # <<>> /\ password # <<>>,
                        how |-> how,
                        result |-> cpa_verify_connection(base, password,
                                                         CpaVerifyResponse(how))])
    /\ UNCHANGED vfyAdapter
    /\ UNCHANGED notVfy

S2aVerifyConnection ==
    /\ vfyAdapter = "s2a"
    /\ Len(vfyLog) < MaxVerifies
    /\ \E base \in ConfigTexts, key \in ConfigTexts, token \in ConfigTexts,
          how \in VerifyHows, groups \in GroupResolutions :
          vfyLog' = Append(vfyLog,
                       [configured |-> base # <<>> /\ (key # <<>> \/ token # <<>>),
                        how |-> how,
                        result |-> s2a_verify_connection(base, key, token,
                                                         S2aVerifyResponse(how), groups)])
    /\ UNCHANGED vfyAdapter
    /\ UNCHANGED notVfy

VfyNext ==
    \/ CrsVerifyToken
    \/ CpaVerifyConnection
    \/ S2aVerifyConnection

\* -------------------------------------------------------------------------
\* Properties of verify_connection
\* -------------------------------------------------------------------------
\* the five kinds of failure that must read differently
FailureKind(entry) ==
    IF ~entry.configured THEN "configuration"
    ELSE IF entry.how \in {"unauthorized", "forbidden", "timeout", "connection"}
    THEN entry.how
    ELSE "other"

\* the outcomes in which the backend answered with HTTP 200
Answered200 == { "ok", "ok_odd", "refused", "not_json" }

\* C15: verify_connection returns (false, message) without any HTTP request
\* when the base URL or the credential is not configured; it returns ok =
\* true only for an HTTP 200 answer; and the messages for configuration
\* error, HTTP 401, HTTP 403, request timeout and connection failure are
\* pairwise different (CRS, CPA and S2A).
C15_VerifyFailsFastAndDistinct ==
    /\ \A i \in 1..Len(vfyLog) :
          /\ ~vfyLog[i].configured =>
                ~vfyLog[i].result.ok /\ vfyLog[i].result.requests = 0
          /\ vfyLog[i].result.ok =>
                vfyLog[i].configured /\ vfyLog[i].how \in Answered200
    /\ \A i, j \in 1..Len(vfyLog) :
          (/\ FailureKind(vfyLog[i]) # "other"
           /\ FailureKind(vfyLog[j]) # "other"
           /\ FailureKind(vfyLog[i]) # FailureKind(vfyLog[j]))
          => vfyLog[i].result.message # vfyLog[j].result.message

\* a run ended by a timeout and a run ended by a refused connection have
\* both been diagnosed
C15_Witness ==
    /\ Len(vfyLog) = 2
    /\ vfyLog[1].configured /\ vfyLog[1].how = "timeout"
    /\ vfyLog[2].configured /\ vfyLog[2].how = "connection"
    /\ ~vfyLog[1].result.ok /\ ~vfyLog[2].result.ok
    /\ vfyLog[1].result.requests = 1

\* -------------------------------------------------------------------------
\* crs/cpa/s2a/sub2api_service.py: the retrying transport of http_session
\* -------------------------------------------------------------------------
\* create_session_with_retry mounts HTTPAdapter(max_retries=Retry(...)) on the
\* session.  The steps below are those of urllib3's urlopen/Retry.increment
\* for that configuration: total counts the retries still allowed, each
\* retried failure takes one, and the request is given up when the count
\* falls below zero.

\* Retry(total=5, backoff_factor=1, ...)
RetryTotal == 5
backoff_factor == 1

\* Retry(status_forcelist=[429, 500, 502, 503, 504])
status_forcelist == { 429, 500, 502, 503, 504 }

\* Retry.RETRY_AFTER_STATUS_CODES, honoured because respect_retry_after_header
\* keeps its default
RETRY_AFTER_STATUS_CODES == { 413, 429, 503 }

\* Retry(allowed_methods=[...]) of each adapter's session
allowed_methods(adapter) ==
    CASE adapter \in {"crs", "cpa"} -> { "HEAD", "GET", "POST", "OPTIONS" }
      [] adapter = "s2a" -> { "HEAD", "GET", "POST", "PUT", "DELETE", "OPTIONS" }
      [] OTHER -> { "HEAD", "GET", "POST", "PUT", "PATCH", "DELETE", "OPTIONS" }

\* the methods the adapters send
SentMethods == { "GET", "POST" }

\* what one transmission ends with
TransmissionEnds ==
    { [kind |-> "connect_error"], [kind |-> "read_error"] }
    \cup { [kind |-> "response", status_code |-> c, has_retry_after |-> h] :
             c \in { 200, 404, 413, 500 }, h \in BOOLEAN }

\* a variant that retries every response of status 400 and above
is_retry_any_error_status(adapter, method, status_code, has_retry_after, total) ==
    /\ method \in allowed_methods(adapter)
    /\ status_code >= 400

\* Retry.is_retry
is_retry(adapter, method, status_code, has_retry_after, total) ==
    /\ method \in allowed_methods(adapter)
    /\ \/ status_code \in status_forcelist
       \/ (total # 0 /\ has_retry_after /\ status_code \in RETRY_AFTER_STATUS_CODES)

\* Retry.is_exhausted, on the count left after the decrement
is_exhausted(total) == total < 0

\* whether the end of a transmission is handed to Retry.increment
Retried(adapter, method, end, total) ==
    CASE end.kind = "connect_error" -> TRUE
      [] end.kind = "read_error" -> method \in allowed_methods(adapter)
      [] OTHER -> is_retry(adapter, method, end.status_code, end.has_retry_after, total)

RtIdle ==
    /\ rtAdapter = "crs"
    /\ rtMethod = "GET"
    /\ rtPc = "idle"
    /\ rtTotal = RetryTotal
    /\ rtSent = 0
    /\ rtDelivered = 0
    /\ rtCauses = {}
    /\ rtResult = Unset
    /\ nRequests = 0

RtInit ==
    /\ rtAdapter \in { "crs", "cpa", "s2a", "sub2api" }
    /\ rtMethod = "GET"
    /\ rtPc = "idle"
    /\ rtTotal = RetryTotal
    /\ rtSent = 0
    /\ rtDelivered = 0
    /\ rtCauses = {}
    /\ rtResult = Unset
    /\ nRequests = 0

\* http_session.get(...) / http_session.post(...) is called: the adapter
\* starts from the session's Retry object
RtRequest ==
    /\ rtPc \in {"idle", "done"}
    /\ nRequests < MaxRequests
    /\ \E method \in SentMethods : rtMethod' = method
    /\ rtPc' = "sending"
    /\ rtTotal' = RetryTotal
    /\ rtSent' = 0
    /\ rtDelivered' = 0
    /\ rtCauses' = {}
    /\ rtResult' = Unset
    /\ UNCHANGED <<rtAdapter, nRequests>>
    /\ UNCHANGED notRt

\* one transmission and what urlopen does with its end: hand the response to
\* the caller, retry, or give up
RtTransmit ==
    /\ rtPc = "sending"
    /\ \E end \in TransmissionEnds :
          /\ rtSent' = rtSent + 1
          /\ rtDelivered' = rtDelivered + (IF end.kind = "response" THEN 1 ELSE 0)
          /\ IF Retried(rtAdapter, rtMethod, end, rtTotal)
             THEN /\ rtTotal' = rtTotal - 1
                  /\ IF is_exhausted(rtTotal - 1)
                     THEN /\ rtPc' = "done"
                          /\ rtResult' = SetTo([kind |-> "raised", last |-> end])
                          /\ rtCauses' = rtCauses
                          /\ nRequests' = nRequests + 1
                     ELSE /\ rtPc' = "sending"
                          /\ rtResult' = rtResult
                          /\ rtCauses' = rtCauses \cup {end}
                          /\ nRequests' = nRequests
             ELSE /\ rtTotal' = rtTotal
                  /\ rtPc' = "done"
                  /\ rtResult' = SetTo(IF end.kind = "response"
                                       THEN [kind |-> "returned", last |-> end]
                                       ELSE [kind |-> "raised", last |-> end])
                  /\ rtCauses' = rtCauses
                  /\ nRequests' = nRequests + 1
    /\ UNCHANGED <<rtAdapter, rtMethod>>
    /\ UNCHANGED notRt

RtNext ==
    \/ RtRequest
    \/ RtTransmit

\* -------------------------------------------------------------------------
\* Properties of the transport
\* -------------------------------------------------------------------------
IsFailure(end) == end.kind \in {"connect_error", "read_error"}

InForcelist(end) == end.kind = "response" /\ end.status_code \in {429, 500, 502, 503, 504}

\* C16: one logical request is transmitted at most 5 times in total; a
\* further attempt is made only after a connection failure or a response
\* whose status is in {429, 500, 502, 503, 504}; a response with any other
\* status is returned to the caller after a single attempt.
C16_AtMostFiveTransmissions ==
    /\ rtSent <= 5
    /\ \A end \in rtCauses : IsFailure(end) \/ InForcelist(end)
    /\ (rtResult.set /\ rtResult.val.kind = "returned") =>
          ~InForcelist(rtResult.val.last)

\* C16 as the transport has it: at most 6 transmissions (the first and 5
\* retries); a further attempt only after a failed transmission, a response
\* whose status is in the set, or a 413 / 429 / 503 response that carries a
\* Retry-After header; any other response is returned at once, and the
\* request is given up with an exception only after the sixth transmission
\* or, for a failure that is not retried, at once.
C16_AtMostSixTransmissions ==
    /\ rtSent <= 1 + RetryTotal
    /\ rtSent + rtTotal = RetryTotal + (IF rtPc = "sending" \/ rtSent = 0 THEN 0
                                        ELSE IF rtResult.val.kind = "returned" THEN 1
                                        ELSE 0)
    /\ \A end \in rtCauses :
          \/ IsFailure(end)
          \/ InForcelist(end)
          \/ (/\ end.kind = "response"
              /\ end.status_code \in {413, 429, 503}
              /\ end.has_retry_after)
    /\ (rtResult.set /\ rtResult.val.kind = "returned") =>
          ~InForcelist(rtResult.val.last)
    /\ (rtResult.set /\ rtResult.val.kind = "raised") => rtSent = 1 + RetryTotal

\* C35: one call of an account-creating function of the CRS or S2A adapter
\* (each sends its creation request with http_session.post) has at most one
\* creation POST answered by the backend, retryable answers included.
C35_AtMostOneCreatePost ==
    (rtAdapter \in {"crs", "s2a"} /\ rtMethod = "POST") => rtDelivered <= 1

\* a logical request was given up after its sixth transmission
C16_Witness ==
    /\ rtPc = "done"
    /\ rtSent = 6
    /\ rtResult.set /\ rtResult.val.kind = "raised"
    /\ [kind |-> "connect_error"] \in rtCauses

\* -------------------------------------------------------------------------
\* Frame of remove_account_from_tracker
\* -------------------------------------------------------------------------
\* the positions of a list whose row is for another email than E
OtherPositions(list, E) == {i \in 1..Len(list) : list[i].email # E}

\* the k-th of these positions, in increasing order
KthOther(list, E, k) ==
    CHOOSE i \in OtherPositions(list, E) :
        Cardinality({j \in OtherPositions(list, E) : j <= i}) = k

\* C19: remove_account_from_tracker(T, E) returns true if and only if an
\* entry for (T, E) existed before the call; afterwards no entry for (T, E)
\* remains, the other entries of T keep their content and relative order and
\* all other teams are unchanged; for an unknown team or email it returns
\* false and changes nothing.
C19_RemoveFrame ==
    [][(nCalls' = nCalls + 1 /\ lastCall'.op = "remove_account_from_tracker")
       => LET T == lastCall'.team
              E == lastCall'.email
              existed == Rows(tracker, T, E) # {}
          IN /\ ret' = existed
             /\ Rows(tracker', T, E) = {}
             /\ DOMAIN tracker'.teams = DOMAIN tracker.teams
             /\ \A other \in DOMAIN tracker.teams \ {T} :
                   tracker'.teams[other] = tracker.teams[other]
             /\ T \in DOMAIN tracker.teams =>
                   LET old == tracker.teams[T]
                       new == tracker'.teams[T]
                   IN /\ Len(new) = Cardinality(OtherPositions(old, E))
                      /\ \A k \in 1..Len(new) : new[k] = old[KthOther(old, E, k)]
             /\ ~existed => tracker' = tracker]_vars

\* the first of two rows of team a has been removed: the call returned true
\* and the second row is what the team is left with
C19_Witness ==
    /\ lastCall.op = "remove_account_from_tracker"
    /\ lastCall.team = <<"a">> /\ lastCall.email = <<"a", "@", "x">>
    /\ ret = TRUE
    /\ nCalls = 1
    /\ <<"a">> \in DOMAIN tracker.teams
    /\ Len(tracker.teams[<<"a">>]) = 1
    /\ tracker.teams[<<"a">>][1].email = <<"m", "@", "x">>
    /\ <<"b">> \in DOMAIN tracker.teams

\* -------------------------------------------------------------------------
\* utils.py: the tracker file across crashes and restarts
\* -------------------------------------------------------------------------
\* json.dump(tracker, f) writes the document piece by piece into the file
\* that open(..., 'w') has just truncated: one piece per row and a last one
\* that closes the document.  A file parses only when all pieces are there.
RECURSIVE RowCount(_, _)
RowCount(teams, names) ==
    IF names = {} THEN 0
    ELSE LET T == CHOOSE T \in names : TRUE
         IN Len(teams[T]) + RowCount(teams, names \ {T})

Pieces(doc) == RowCount(doc.teams, DOMAIN doc.teams) + 1

NoFile == [exists |-> FALSE]
FileWith(doc, written) == [exists |-> TRUE, doc |-> doc, written |-> written]

\* the file holds a whole document
Complete(file) == file.exists /\ file.written = Pieces(file.doc)

\* utils.py:44-57; readable: whether open(..., 'r') succeeds
load_team_tracker(file, readable) ==
    IF file.exists /\ readable /\ Complete(file)
    THEN file.doc
    ELSE [teams |-> EmptyDict, last_updated |-> None]

\* the team and the rows the runs work on
PstTeam == <<"a">>
PstStatuses == { "registered", "completed" }

\* the (team, email) entries of a tracker
Entries(tr) ==
    UNION { { <<T, tr.teams[T][i].email>> : i \in 1..Len(tr.teams[T]) } :
              T \in DOMAIN tr.teams }

\* the file a previous run may have left: none, or a completed save
PstInitialFiles ==
    { NoFile,
      FileWith([teams |-> (PstTeam :> << [email |-> <<"m", "@", "x">>,
                                         status |-> "registered",
                                         created_at |-> 0, updated_at |-> 0] >>),
                last_updated |-> Some(0)], 2) }

PstIdle ==
    /\ pstFile = NoFile
    /\ pstPrev = NoFile
    /\ pstMem = Unset
    /\ pstPc = "down"
    /\ pstOwed = {}
    /\ pstSaves = 0
    /\ pstSteps = 0
    /\ pstCrashes = 0

PstInit ==
    /\ pstFile \in PstInitialFiles
    /\ pstPrev = pstFile
    /\ pstMem = Unset
    /\ pstPc = "run"
    /\ pstOwed = (IF pstFile.exists THEN Entries(pstFile.doc) ELSE {})
    /\ pstSaves = 0
    /\ pstSteps = 0
    /\ pstCrashes = 0

\* the pipeline starts by loading the tracker
PstLoad ==
    /\ pstPc = "run" /\ ~pstMem.set
    /\ \E readable \in BOOLEAN :
          pstMem' = SetTo(load_team_tracker(pstFile, readable))
    /\ UNCHANGED <<pstFile, pstPrev, pstPc, pstOwed, pstSaves, pstSteps, pstCrashes>>
    /\ UNCHANGED notPst

PstAddAccount ==
    /\ pstPc = "run" /\ pstMem.set
    /\ pstSteps < MaxSteps
    /\ \E E \in Emails, s \in PstStatuses :
          pstMem' = SetTo(add_account_to_tracker(pstMem.val, PstTeam, E, s, 0, 0))
    /\ pstSteps' = pstSteps + 1
    /\ UNCHANGED <<pstFile, pstPrev, pstPc, pstOwed, pstSaves, pstCrashes>>
    /\ UNCHANGED notPst

PstRemoveAccount ==
    /\ pstPc = "run" /\ pstMem.set
    /\ pstSteps < MaxSteps
    /\ \E E \in Emails :
          /\ pstMem' = SetTo(remove_account_from_tracker(pstMem.val, PstTeam, E).tracker)
          /\ pstOwed' = pstOwed \ { <<PstTeam, E>> }
    /\ pstSteps' = pstSteps + 1
    /\ UNCHANGED <<pstFile, pstPrev, pstPc, pstSaves, pstCrashes>>
    /\ UNCHANGED notPst

\* save_team_tracker up to open(TEAM_TRACKER_FILE, 'w'): last_updated is
\* set, then the file is truncated, or open raises and the save is over
PstSaveOpen ==
    /\ pstPc = "run" /\ pstMem.set
    /\ pstSaves < MaxSaves
    /\ LET doc == Put(pstMem.val, "last_updated", Some(pstSaves + 1))
       IN /\ pstMem' = SetTo(doc)
          /\ \E opened \in BOOLEAN :
                IF opened
                THEN /\ pstFile' = FileWith(doc, 0)
                     /\ pstPrev' = pstFile
                     /\ pstPc' = "saving"
                ELSE UNCHANGED <<pstFile, pstPrev, pstPc>>
    /\ pstSaves' = pstSaves + 1
    /\ UNCHANGED <<pstOwed, pstSteps, pstCrashes>>
    /\ UNCHANGED notPst

\* json.dump writes the next piece; with the last one the save is complete
PstSaveWrite ==
    /\ pstPc = "saving"
    /\ pstFile' = FileWith(pstFile.doc, pstFile.written + 1)
    /\ IF pstFile.written + 1 = Pieces(pstFile.doc)
       THEN /\ pstPc' = "run"
            /\ pstOwed' = pstOwed \cup Entries(pstFile.doc)
       ELSE UNCHANGED <<pstPc, pstOwed>>
    /\ UNCHANGED <<pstPrev, pstMem, pstSaves, pstSteps, pstCrashes>>
    /\ UNCHANGED notPst

\* a write raises (disk full): the except clause logs it and the save is over
PstSaveFail ==
    /\ pstPc = "saving"
    /\ pstPc' = "run"
    /\ UNCHANGED <<pstFile, pstPrev, pstMem, pstOwed, pstSaves, pstSteps, pstCrashes>>
    /\ UNCHANGED notPst

\* the process dies; the file stays as it is
PstCrash ==
    /\ pstPc \in {"run", "saving"}
    /\ pstCrashes < MaxCrashes
    /\ pstPc' = "down"
    /\ pstMem' = Unset
    /\ pstCrashes' = pstCrashes + 1
    /\ UNCHANGED <<pstFile, pstPrev, pstOwed, pstSaves, pstSteps>>
    /\ UNCHANGED notPst

PstRestart ==
    /\ pstPc = "down"
    /\ pstPc' = "run"
    /\ UNCHANGED <<pstFile, pstPrev, pstMem, pstOwed, pstSaves, pstSteps, pstCrashes>>
    /\ UNCHANGED notPst

PstNext ==
    \/ PstLoad
    \/ PstAddAccount
    \/ PstRemoveAccount
    \/ PstSaveOpen
    \/ PstSaveWrite
    \/ PstSaveFail
    \/ PstCrash
    \/ PstRestart

\* -------------------------------------------------------------------------
\* Properties of the persistence
\* -------------------------------------------------------------------------
\* C17: tracker persistence is an atomic overwrite: whenever the process
\* has crashed, the tracker file holds the complete previous document or the
\* complete new one, never an empty, truncated or partially written one.
C17_AtomicOverwrite ==
    (pstPc = "down" /\ pstFile.exists) => Complete(pstFile)

\* C18: crash recovery loses no work: every (team, email) entry of a
\* completed save that was not explicitly removed is present in the tracker
\* the pipeline has loaded and in every complete file on disk.
C18_NoWorkLost ==
    /\ pstMem.set => pstOwed \subseteq Entries(pstMem.val)
    /\ Complete(pstFile) => pstOwed \subseteq Entries(pstFile.doc)


\* -------------------------------------------------------------------------
\* Group-ID resolution of the S2A service (src/s2a_service.py:33, 94-173)
\* -------------------------------------------------------------------------

\* One group of the listing: a JSON object whose "name" may be a string,
\* null or missing and whose "id" may be a number, null or missing.
GroupItems ==
    { [name |-> JStr(<<"A">>), id |-> Some(1)],
      [name |-> JStr(<<"b">>), id |-> Some(2)],
      [name |-> JStr(<<"a">>), id |-> None],
      [name |-> JNone, id |-> Some(3)],
      [id |-> Some(4)] }

GroupLists ==
    UNION { [1..n -> GroupItems] : n \in 0..MaxGroups }

\* What GET /admin/groups comes to: an exception, a status other than 200
\* or a code other than 0 ("failed"), or the items of the answer.
ListingOutcomes ==
    { [how |-> "failed"] } \cup { [how |-> "items", items |-> l] : l \in GroupLists }

\* s2a_get_groups: the items of a good answer, [] in every other case.
s2a_get_groups(group_listing) ==
    IF group_listing.how = "items" THEN group_listing.items ELSE <<>>

GroupName(g) == Get(g, "name", JStr(<<>>))
GroupId(g) == Get(g, "id", None)

\* {g.get("name", "").lower(): g.get("id") for g in groups}: a later group
\* replaces an earlier one of the same lowered name.
name_to_id(groups) ==
    LET key(i) == Lower(GroupName(groups[i]).str)
        keys == { key(i) : i \in 1..Len(groups) }
        last(k) == CHOOSE i \in 1..Len(groups) :
                       /\ key(i) = k
                       /\ \A j \in 1..Len(groups) : key(j) = k => j <= i
    IN  [k \in keys |-> GroupId(groups[last(k)])]

\* The loop over S2A_GROUP_NAMES: the id of every name the listing knows
\* with an id that is not None, in the order of the names.
RECURSIVE ResolveNames(_, _)
ResolveNames(names, dict) ==
    IF names = <<>> THEN <<>>
    ELSE LET group_id == Get(dict, Lower(Head(names)), None)
         IN  (IF group_id.none THEN <<>> ELSE <<group_id.val>>)
                 \o ResolveNames(Tail(names), dict)

GrpAnswer(out, cache, requested, wrote) ==
    [out |-> out, cache |-> cache, requested |-> requested, wrote |-> wrote]

\* The variant that tests the cache for truth, so that an empty list is
\* resolved again.
s2a_resolve_group_ids_empty_not_cached(cache, ids, names, group_listing) ==
    LET groups == s2a_get_groups(group_listing)
        resolved == ResolveNames(names, name_to_id(groups))
    IN  IF ~cache.none /\ cache.val # <<>>
        THEN GrpAnswer(Returned(cache.val), cache, FALSE, FALSE)
        ELSE IF ids # <<>>
        THEN GrpAnswer(Returned(ids), Some(ids), FALSE, TRUE)
        ELSE IF names = <<>>
        THEN GrpAnswer(Returned(<<>>), Some(<<>>), FALSE, TRUE)
        ELSE IF groups = <<>>
        THEN GrpAnswer(Returned(<<>>), Some(<<>>), TRUE, TRUE)
        ELSE IF \E i \in 1..Len(groups) : GroupName(groups[i]).type # "str"
        THEN GrpAnswer(Raised, cache, TRUE, FALSE)
        ELSE GrpAnswer(Returned(resolved), Some(resolved), TRUE, TRUE)

\* s2a_resolve_group_ids (the silent flag only chooses whether warnings are
\* logged).  A null group name raises in the comprehension, after the
\* listing request and before the cache is assigned.
s2a_resolve_group_ids(cache, ids, names, group_listing) ==
    LET groups == s2a_get_groups(group_listing)
        resolved == ResolveNames(names, name_to_id(groups))
    IN  IF ~cache.none
        THEN GrpAnswer(Returned(cache.val), cache, FALSE, FALSE)
        ELSE IF ids # <<>>
        THEN GrpAnswer(Returned(ids), Some(ids), FALSE, TRUE)
        ELSE IF names = <<>>
        THEN GrpAnswer(Returned(<<>>), Some(<<>>), FALSE, TRUE)
        ELSE IF groups = <<>>
        THEN GrpAnswer(Returned(<<>>), Some(<<>>), TRUE, TRUE)
        ELSE IF \E i \in 1..Len(groups) : GroupName(groups[i]).type # "str"
        THEN GrpAnswer(Raised, cache, TRUE, FALSE)
        ELSE GrpAnswer(Returned(resolved), Some(resolved), TRUE, TRUE)

\* get_s2a_group_ids: the resolution under its public name.
get_s2a_group_ids(cache, ids, names, group_listing) ==
    s2a_resolve_group_ids(cache, ids, names, group_listing)

\* The names of S2A_GROUP_NAMES the listing does not know, or knows with
\* an id of None, in the order of the names.
RECURSIVE not_found(_, _)
not_found(names, dict) ==
    IF names = <<>> THEN <<>>
    ELSE (IF Get(dict, Lower(Head(names)), None).none
          THEN <<Head(names)>> ELSE <<>>)
             \o not_found(Tail(names), dict)

\* What s2a_resolve_group_ids hands to log.warning in one call: nothing
\* when it answers from the cache, from S2A_GROUP_IDS or without names,
\* nothing when silent, nothing when it raises; otherwise one line about
\* the listing as a whole, or one line naming the names not found.
ResolveWarnings(cache, ids, names, group_listing, silent) ==
    LET groups == s2a_get_groups(group_listing)
        missing == not_found(names, name_to_id(groups))
    IN  IF ~cache.none \/ ids # <<>> \/ names = <<>> \/ silent
        THEN <<>>
        ELSE IF groups = <<>>
        THEN << [text |-> "S2A cannot get the group list, group_names not resolved"] >>
        ELSE IF \E i \in 1..Len(groups) : GroupName(groups[i]).type # "str"
        THEN <<>>
        ELSE IF missing # <<>>
        THEN << [text |-> "S2A groups not found: {}", names |-> missing] >>
        ELSE <<>>

\* The configured names one call gives up: none when it answers from the
\* cache or from S2A_GROUP_IDS or raises, all of them when the listing
\* brings no group, and otherwise those the listing does not know.
DroppedNames(cache, ids, names, group_listing) ==
    LET groups == s2a_get_groups(group_listing)
    IN  IF ~cache.none \/ ids # <<>> \/ names = <<>>
        THEN <<>>
        ELSE IF groups = <<>>
        THEN names
        ELSE IF \E i \in 1..Len(groups) : GroupName(groups[i]).type # "str"
        THEN <<>>
        ELSE not_found(names, name_to_id(groups))

\* The groups of a listing whose name is a text equal to the configured
\* name when case is ignored.
Matches(name, items) ==
    { i \in 1..Len(items) : /\ GroupName(items[i]).type = "str"
                            /\ Lower(GroupName(items[i]).str) = Lower(name) }

\* The ids of the configured names that equal a listed group name, in
\* configured order (of several groups of one name, the last listed).
RECURSIVE MatchedIds(_, _)
MatchedIds(names, items) ==
    IF names = <<>> THEN <<>>
    ELSE LET found == Matches(Head(names), items)
             group_id == IF found = {} THEN None
                         ELSE GroupId(items[CHOOSE i \in found : \A j \in found : j <= i])
         IN  (IF group_id.none THEN <<>> ELSE <<group_id.val>>)
                 \o MatchedIds(Tail(names), items)

GrpConfigIds == { <<>>, <<7>> }
GrpConfigNames == { <<>>, << <<"a">> >>, << <<"A">>, <<"b">> >>, << <<"g">> >> }

GrpIdle ==
    /\ grpIds = <<>>
    /\ grpNames = <<>>
    /\ grpCache = None
    /\ grpRequests = 0
    /\ grpWrites = 0
    /\ grpLog = <<>>
    /\ grpWarnings = <<>>

\* Module import: the cache is None, the configuration is whatever
\* config.toml says.
GrpInit ==
    /\ grpIds \in GrpConfigIds
    /\ grpNames \in GrpConfigNames
    /\ grpCache = None
    /\ grpRequests = 0
    /\ grpWrites = 0
    /\ grpLog = <<>>
    /\ grpWarnings = <<>>

GrpCall(answer, via, warnings, dropped, groups) ==
    /\ grpCache' = answer.cache
    /\ grpWarnings' = grpWarnings \o warnings
    /\ grpRequests' = grpRequests + (IF answer.requested THEN 1 ELSE 0)
    /\ grpWrites' = grpWrites + (IF answer.wrote THEN 1 ELSE 0)
    /\ grpLog' = Append(grpLog, [via |-> via, out |-> answer.out,
                                 listed |-> answer.requested,
                                 dropped |-> dropped,
                                 groups |-> IF answer.requested THEN Len(groups)
                                            ELSE 0,
                                 cached |-> ~grpCache.none,
                                 named |-> \/ ~answer.requested
                                           \/ \A k \in 1..Len(groups) :
                                                GroupName(groups[k]).type = "str",
                                 matched |-> IF answer.requested /\ ~answer.out.raised
                                             THEN MatchedIds(grpNames, groups)
                                             ELSE <<>>])
    /\ UNCHANGED <<grpIds, grpNames>>

\* s2a_verify_connection resolves the groups itself, with silent=True.
S2aResolveGroupIds ==
    /\ Len(grpLog) < MaxResolves
    /\ \E group_listing \in ListingOutcomes :
           GrpCall(s2a_resolve_group_ids(grpCache, grpIds, grpNames, group_listing),
                   "s2a_resolve_group_ids",
                   ResolveWarnings(grpCache, grpIds, grpNames, group_listing, TRUE),
                   DroppedNames(grpCache, grpIds, grpNames, group_listing),
                   s2a_get_groups(group_listing))
    /\ UNCHANGED notGrp

\* s2a_create_account_from_oauth and s2a_add_account go through
\* get_s2a_group_ids, which leaves silent at its default, False.
GetS2aGroupIds ==
    /\ Len(grpLog) < MaxResolves
    /\ \E group_listing \in ListingOutcomes :
           GrpCall(get_s2a_group_ids(grpCache, grpIds, grpNames, group_listing),
                   "get_s2a_group_ids",
                   ResolveWarnings(grpCache, grpIds, grpNames, group_listing, FALSE),
                   DroppedNames(grpCache, grpIds, grpNames, group_listing),
                   s2a_get_groups(group_listing))
    /\ UNCHANGED notGrp

GrpNext ==
    \/ S2aResolveGroupIds
    \/ GetS2aGroupIds

\* C20: once a resolution has returned, every later call returns the same
\* list without a group-listing request, and the cache is assigned at most
\* once in the life of the process.
C20_ResolvedOnce ==
    /\ \A i, j \in 1..Len(grpLog) :
           (i < j /\ ~grpLog[i].out.raised) =>
               /\ grpLog[j].out = grpLog[i].out
               /\ ~grpLog[j].listed
    /\ grpWrites <= 1
    /\ grpRequests <= 1 \/ \E i \in 1..Len(grpLog) : grpLog[i].out.raised

\* A resolution by names that found nothing (or whose listing failed) is
\* followed by a second call, which repeats the empty list.
C20_Witness ==
    /\ Len(grpLog) >= 2
    /\ grpLog[1].listed
    /\ grpLog[1].out = Returned(<<>>)
    /\ grpLog[2].out = Returned(<<>>)
    /\ grpWrites = 1


RECURSIVE SeqToSet(_)
SeqToSet(s) == IF s = <<>> THEN {} ELSE {Head(s)} \cup SeqToSet(Tail(s))

Warned(name) ==
    \E i \in 1..Len(grpWarnings) :
        /\ "names" \in DOMAIN grpWarnings[i]
        /\ name \in SeqToSet(grpWarnings[i].names)

\* C21: every configured name that a call of the resolution has dropped
\* is named in a warning, whichever caller made the resolving call.  The
\* warning can only come from the call that drops the name: once the
\* cache is set no call warns (NoWarningOnceCached).
C21_DroppedNamesAreWarned ==
    \A i \in 1..Len(grpLog) :
        \A name \in SeqToSet(grpLog[i].dropped) : Warned(name)

NoWarningOnceCached ==
    [][~grpCache.none => grpWarnings' = grpWarnings]_vars

\* What does hold: a name dropped by a call that was not silent and whose
\* listing brought groups is named in a warning.
DroppedNamesAreWarnedWhenLoudAndListed ==
    \A i \in 1..Len(grpLog) :
        (grpLog[i].via = "get_s2a_group_ids" /\ grpLog[i].groups > 0) =>
            \A name \in SeqToSet(grpLog[i].dropped) : Warned(name)

\* What C32 says a call that finds no cached result answers.
ResolvesAsConfigured(call) ==
    IF grpIds # <<>>
    THEN call.out = Returned(grpIds) /\ ~call.listed
    ELSE call.out = Returned(call.matched)

\* C32: configured numeric IDs are returned as they are, without a listing
\* request; otherwise the result is the ids of the configured names that
\* equal a listed group name when case is ignored, in configured order, a
\* name without match being left out; it is the empty list when the listing
\* fails or is empty.
C32_ResolutionResult ==
    \A i \in 1..Len(grpLog) : ~grpLog[i].cached => ResolvesAsConfigured(grpLog[i])

\* The same for the listings in which every group has a text as its name.
ResolutionResultForNamedGroups ==
    \A i \in 1..Len(grpLog) :
        (~grpLog[i].cached /\ grpLog[i].named) => ResolvesAsConfigured(grpLog[i])

\* A listing with a group whose name is null ends the resolution with an
\* exception, whatever the other groups are.
NullNameRaises ==
    \A i \in 1..Len(grpLog) :
        grpLog[i].out.raised <=> ~grpLog[i].named


\* -------------------------------------------------------------------------
\* One authorization attempt: exchange and pool insertion
\* (src/crs_service.py:144-225, src/s2a_service.py:275-334,
\*  src/sub2api_service.py:143-210; the driver that sequences them and
\*  records the result is described in sections 4.3 and 4.5 of the
\*  specification)
\* -------------------------------------------------------------------------

\* The "data" of an answer: a record with an id, an empty object, null, or
\* (for the exchange) token data whose "tokens" is an object or null.
AccountDatas == { JObj([id |-> 1]), JObj(EmptyDict), JNone }
CodexDatas ==
    { JObj([tokens |-> JObj([accessToken |-> JStr(<<"t">>)])]),
      JObj([tokens |-> JNone]), JObj(EmptyDict), JNone }

AttHows == { "ok", "ok_no_data", "refused", "http_error", "not_json",
             "exception" }

\* An answer of the CRS admin API: {"success": ..., "data": ...}
CrsDataResponse(how, data) ==
    CASE how = "ok" ->
            [kind |-> "response", status_code |-> 200,
             body |-> Json([success |-> TRUE, data |-> data])]
      [] how = "ok_no_data" ->
            [kind |-> "response", status_code |-> 200,
             body |-> Json([success |-> TRUE])]
      [] how = "refused" ->
            [kind |-> "response", status_code |-> 200,
             body |-> Json([success |-> FALSE, data |-> data])]
      [] OTHER -> FailedResponse(how)

\* An answer of the S2A admin API: {"code": ..., "data": ...}
S2aDataResponse(how, data) ==
    CASE how = "ok" ->
            [kind |-> "response", status_code |-> 200,
             body |-> Json([code |-> 0, data |-> data])]
      [] how = "ok_no_data" ->
            [kind |-> "response", status_code |-> 200,
             body |-> Json([code |-> 0])]
      [] how = "refused" ->
            [kind |-> "response", status_code |-> 200,
             body |-> Json([code |-> 1, data |-> data])]
      [] OTHER -> FailedResponse(how)

\* An answer of the Sub2API admin API: {"data": ...} or the record itself;
\* a refusal comes with an HTTP error status.
Sub2apiDataResponse(how, data) ==
    CASE how = "ok" ->
            [kind |-> "response", status_code |-> 200,
             body |-> Json([data |-> data])]
      [] how = "ok_no_data" ->
            [kind |-> "response", status_code |-> 200,
             body |-> Json([id |-> 1])]
      [] how = "refused" ->
            [kind |-> "response", status_code |-> 400,
             body |-> Json([code |-> 400, data |-> data])]
      [] OTHER -> FailedResponse(how)

\* crs_service.py:144-176.  A missing "data" raises KeyError inside the
\* try and comes out as None.
crs_exchange_code(outcome) ==
    IF outcome.kind = "exception" THEN JNone
    ELSE IF outcome.status_code = 200 /\ outcome.body.valid
    THEN LET result == outcome.body.obj
         IN IF Get(result, "success", FALSE)
            THEN Get(result, "data", JNone)
            ELSE JNone
    ELSE JNone

\* codex_data.get("tokens", {}).get(...), evaluated before the try: raises
\* on a codex_data that is None and on a "tokens" that is null.
PayloadRaises(codex_data) ==
    \/ codex_data.type # "obj"
    \/ Get(codex_data.obj, "tokens", JObj(EmptyDict)).type # "obj"

\* The variant that takes any 200 answer with a data for an insertion.
crs_add_account_success_not_tested(codex_data, outcome) ==
    IF PayloadRaises(codex_data) THEN Raised
    ELSE IF outcome.kind = "exception" THEN Returned(JNone)
    ELSE IF outcome.status_code = 200 /\ outcome.body.valid
    THEN LET result == outcome.body.obj
         IN IF Get(result, "data", JObj(EmptyDict)).type # "obj"
            THEN Returned(JNone)
            ELSE Returned(Get(result, "data", JNone))
    ELSE Returned(JNone)

\* crs_service.py:179-225.  result.get("data", {}).get("id") raises on a
\* null data and result["data"] on a missing one, both inside the try.
crs_add_account(codex_data, outcome) ==
    IF PayloadRaises(codex_data) THEN Raised
    ELSE IF outcome.kind = "exception" THEN Returned(JNone)
    ELSE IF outcome.status_code = 200 /\ outcome.body.valid
    THEN LET result == outcome.body.obj
         IN IF Get(result, "success", FALSE)
            THEN IF Get(result, "data", JObj(EmptyDict)).type # "obj"
                 THEN Returned(JNone)
                 ELSE Returned(Get(result, "data", JNone))
            ELSE Returned(JNone)
    ELSE Returned(JNone)

\* s2a_service.py:275-334.  get_s2a_group_ids() runs before the try and
\* may raise; account_data.get("id") raises on a null data inside the try.
s2a_create_account_from_oauth(groups_raise, outcome) ==
    IF groups_raise THEN Raised
    ELSE IF outcome.kind = "exception" THEN Returned(JNone)
    ELSE IF outcome.status_code = 200 /\ outcome.body.valid
    THEN LET result == outcome.body.obj
             account_data == Get(result, "data", JObj(EmptyDict))
         IN IF Get(result, "code", 1) = 0
            THEN IF account_data.type # "obj" THEN Returned(JNone)
                 ELSE Returned(account_data)
            ELSE Returned(JNone)
    ELSE Returned(JNone)

\* sub2api_service.py:143-210
sub2api_create_openai_account_from_oauth(outcome) ==
    IF outcome.kind = "exception" THEN Returned(JNone)
    ELSE IF outcome.status_code = 200 /\ outcome.body.valid
    THEN LET data == _unwrap_response_json(outcome.body.obj)
         IN IF data.type = "obj" THEN Returned(data) ELSE Returned(JNone)
    ELSE Returned(JNone)

\* Python truth of a returned dict-or-None
TruthyRecord(v) == v.type = "obj" /\ DOMAIN v.obj # {}

\* The backend's answer says the step succeeded.
AnswerSucceeded(backend, outcome) ==
    /\ outcome.kind = "response"
    /\ outcome.status_code = 200
    /\ outcome.body.valid
    /\ CASE backend = "crs" -> Get(outcome.body.obj, "success", FALSE)
         [] backend = "s2a" -> Get(outcome.body.obj, "code", 1) = 0
         [] OTHER -> TRUE

AttBackends == { "crs", "s2a", "sub2api" }
AttTeam == <<"a">>
AttEmail == <<"m", "@", "x">>

AttStatus(tr) == tr.teams[AttTeam][1].status

\* Section 4.3: the attempt is AUTHORIZED when the authorization step
\* succeeded and the insertion returned an account record, FAILED
\* otherwise; an exception that leaves the insertion ends the attempt
\* without a result.
AttemptOutcome(authOk, insertion) ==
    IF insertion.raised THEN "RAISED"
    ELSE IF authOk /\ TruthyRecord(insertion.val) THEN "AUTHORIZED"
    ELSE "FAILED"

\* Section 4.5: on success upsert(status = "completed"); on failure the
\* status stays at the last known stage.
RecordOutcome(tr, outcome) ==
    IF outcome = "AUTHORIZED"
    THEN update_account_status(tr, AttTeam, AttEmail, "completed", 1)
    ELSE tr

AttIdle ==
    /\ attTracker = [teams |-> EmptyDict]
    /\ attPc = "idle"
    /\ attBackend = "crs"
    /\ attCodex = JNone
    /\ attAuthOk = FALSE
    /\ attLog = <<>>

\* The account is in the tracker at the stage before authorization.
AttInit ==
    /\ attTracker = [teams |-> (AttTeam :> << [email |-> AttEmail,
                                               status |-> "registered",
                                               created_at |-> 0,
                                               updated_at |-> 0] >>)]
    /\ attPc = "idle"
    /\ attBackend = "crs"
    /\ attCodex = JNone
    /\ attAuthOk = FALSE
    /\ attLog = <<>>

AttFinish(authOk, answered, insertOk, insertion) ==
    LET outcome == AttemptOutcome(authOk, insertion)
    IN  /\ attTracker' = RecordOutcome(attTracker, outcome)
        /\ attLog' = Append(attLog,
                        [backend |-> attBackend, auth_ok |-> authOk,
                         inserting |-> answered, insert_ok |-> insertOk,
                         record |-> ~insertion.raised /\ insertion.val.type = "obj",
                         outcome |-> outcome])
        /\ attPc' = "idle"
        /\ attCodex' = JNone
        /\ attAuthOk' = FALSE
        /\ UNCHANGED attBackend

\* The browser flow of the attempt: it brings the callback code or not.
AttBegin ==
    /\ attPc = "idle"
    /\ Len(attLog) < MaxAttempts
    /\ AttStatus(attTracker) # "completed"
    /\ \E backend \in AttBackends, got_code \in BOOLEAN :
          /\ attBackend' = backend
          /\ IF got_code
             THEN /\ attPc' = "code"
                  /\ attAuthOk' = (backend # "crs")
                  /\ UNCHANGED <<attTracker, attCodex, attLog>>
             ELSE /\ attLog' = Append(attLog,
                        [backend |-> backend, auth_ok |-> FALSE,
                         inserting |-> FALSE, insert_ok |-> FALSE,
                         record |-> FALSE, outcome |-> "FAILED"])
                  /\ UNCHANGED <<attTracker, attPc, attCodex, attAuthOk>>
    /\ UNCHANGED notAtt

\* CRS, first phase: the code is exchanged for token data.
AttCrsExchange ==
    /\ attPc = "code" /\ attBackend = "crs"
    /\ \E how \in AttHows, data \in CodexDatas :
          LET outcome == CrsDataResponse(how, data)
              codex_data == crs_exchange_code(outcome)
          IN  IF TruthyRecord(codex_data)
              THEN /\ attCodex' = codex_data
                   /\ attAuthOk' = AnswerSucceeded("crs", outcome)
                   /\ attPc' = "exchanged"
                   /\ UNCHANGED <<attTracker, attBackend, attLog>>
              ELSE AttFinish(FALSE, FALSE, FALSE, Returned(JNone))
    /\ UNCHANGED notAtt

\* CRS, second phase: the token data is inserted into the pool.
AttCrsAddAccount ==
    /\ attPc = "exchanged" /\ attBackend = "crs"
    /\ \E how \in AttHows, data \in AccountDatas :
          LET outcome == CrsDataResponse(how, data)
          IN  AttFinish(attAuthOk, TRUE, AnswerSucceeded("crs", outcome),
                        crs_add_account(attCodex, outcome))
    /\ UNCHANGED notAtt

\* S2A: exchange and insertion in one call.
AttS2aCreate ==
    /\ attPc = "code" /\ attBackend = "s2a"
    /\ \E how \in AttHows, data \in AccountDatas, groups_raise \in BOOLEAN :
          LET outcome == S2aDataResponse(how, data)
          IN  AttFinish(attAuthOk, TRUE, AnswerSucceeded("s2a", outcome),
                        s2a_create_account_from_oauth(groups_raise, outcome))
    /\ UNCHANGED notAtt

\* Sub2API: exchange and insertion in one call.
AttSub2apiCreate ==
    /\ attPc = "code" /\ attBackend = "sub2api"
    /\ \E how \in AttHows, data \in AccountDatas :
          LET outcome == Sub2apiDataResponse(how, data)
          IN  AttFinish(attAuthOk, TRUE, AnswerSucceeded("sub2api", outcome),
                        sub2api_create_openai_account_from_oauth(outcome))
    /\ UNCHANGED notAtt

AttNext ==
    \/ AttBegin
    \/ AttCrsExchange
    \/ AttCrsAddAccount
    \/ AttS2aCreate
    \/ AttSub2apiCreate

CsvHeader ==
    << <<"e", "m", "a", "i", "l">>,
       <<"p", "a", "s", "s", "w", "o", "r", "d">>,
       <<"t", "e", "a", "m">>,
       <<"s", "t", "a", "t", "u", "s">>,
       <<"c", "r", "s", "_", "i", "d">>,
       <<"t", "i", "m", "e", "s", "t", "a", "m", "p">> >>

\* csv.writer, excel dialect: a field that holds the delimiter, the quote
\* character or a character of the line terminator is put between quotes
\* and its quotes are doubled.
CsvSpecial == { ",", "\"", "\r", "\n" }

RECURSIVE DoubleQuotes(_)
DoubleQuotes(s) ==
    IF s = <<>> THEN <<>>
    ELSE (IF Head(s) = "\"" THEN <<"\"", "\"">> ELSE <<Head(s)>>)
             \o DoubleQuotes(Tail(s))

QuoteField(s) ==
    IF \E i \in 1..Len(s) : s[i] \in CsvSpecial
    THEN <<"\"">> \o DoubleQuotes(s) \o <<"\"">>
    ELSE s

RECURSIVE JoinFields(_)
JoinFields(fields) ==
    IF Len(fields) = 1 THEN QuoteField(fields[1])
    ELSE QuoteField(Head(fields)) \o <<",">> \o JoinFields(Tail(fields))

\* writer.writerow: the fields, then "\r\n" (the file is opened with
\* newline='', so the terminator is written as it is).
writerow(fields) == JoinFields(fields) \o <<"\r", "\n">>

\* csv.reader, excel dialect, one character at a time: mode is where the
\* reader stands, field and row what it has read of the current field and
\* record, rows the records it has finished.
CsvStart == [mode |-> "start_record", field |-> <<>>, row |-> <<>>, rows |-> <<>>]

CsvEndField(st, mode) ==
    [st EXCEPT !.mode = mode, !.field = <<>>, !.row = Append(st.row, st.field)]

CsvEndRecord(st, mode) ==
    [mode |-> mode, field |-> <<>>, row |-> <<>>,
     rows |-> Append(st.rows, Append(st.row, st.field))]

CsvStep(st, c) ==
    CASE st.mode = "eat_crnl" /\ c = "\n" ->
            [st EXCEPT !.mode = "start_record"]
      [] st.mode \in {"start_record", "start_field"}
            \/ (st.mode = "eat_crnl" /\ c # "\n") ->
            IF c = "\"" THEN [st EXCEPT !.mode = "in_quoted"]
            ELSE IF c = "," THEN CsvEndField(st, "start_field")
            ELSE IF c = "\r" THEN CsvEndRecord(st, "eat_crnl")
            ELSE IF c = "\n" THEN CsvEndRecord(st, "start_record")
            ELSE [st EXCEPT !.mode = "in_field", !.field = <<c>>]
      [] st.mode = "in_field" ->
            IF c = "," THEN CsvEndField(st, "start_field")
            ELSE IF c = "\r" THEN CsvEndRecord(st, "eat_crnl")
            ELSE IF c = "\n" THEN CsvEndRecord(st, "start_record")
            ELSE [st EXCEPT !.field = Append(@, c)]
      [] st.mode = "in_quoted" ->
            IF c = "\"" THEN [st EXCEPT !.mode = "quote_in_quoted"]
            ELSE [st EXCEPT !.field = Append(@, c)]
      [] st.mode = "quote_in_quoted" ->
            IF c = "\"" THEN [st EXCEPT !.mode = "in_quoted", !.field = Append(@, c)]
            ELSE IF c = "," THEN CsvEndField(st, "start_field")
            ELSE IF c = "\r" THEN CsvEndRecord(st, "eat_crnl")
            ELSE IF c = "\n" THEN CsvEndRecord(st, "start_record")
            ELSE [st EXCEPT !.mode = "in_field", !.field = Append(@, c)]

\* One record: the reader runs from position i until it has finished a
\* record (and eaten the "\n" of a "\r\n") or the text ends.
RECURSIVE CsvReadRecord(_, _, _)
CsvReadRecord(text, i, st) ==
    IF i > Len(text)
    THEN [rows |-> IF st.mode \in {"start_record", "eat_crnl"} THEN st.rows
                   ELSE Append(st.rows, Append(st.row, st.field)),
          next |-> i]
    ELSE IF st.mode = "start_record" /\ st.rows # <<>>
    THEN [rows |-> st.rows, next |-> i]
    ELSE IF st.mode = "eat_crnl" /\ text[i] # "\n"
    THEN [rows |-> st.rows, next |-> i]
    ELSE CsvReadRecord(text, i + 1, CsvStep(st, text[i]))

RECURSIVE CsvReadFrom(_, _)
CsvReadFrom(text, i) ==
    IF i > Len(text) THEN <<>>
    ELSE LET record == CsvReadRecord(text, i, CsvStart)
         IN  record.rows \o CsvReadFrom(text, record.next)

CsvRowsOf(text) == CsvReadFrom(text, 1)

\* datetime.now().strftime('%Y-%m-%d %H:%M:%S'): digits, dashes, colons
\* and one space; the clock reading stands for it.
Timestamp(t) == <<Digit(t)>>

\* The variant that opens the file for writing instead of appending.
save_to_csv_truncating(file, email, password, team_name, status, crs_id, t) ==
    LET file_exists == ~file.none
        row == writerow(<<email, password, team_name, status, crs_id,
                          Timestamp(t)>>)
    IN  Some((IF file_exists THEN <<>> ELSE writerow(CsvHeader)) \o row)

\* save_to_csv: open(CSV_FILE, 'a') keeps what the file holds; the header
\* is written when os.path.exists said the file was not there.
save_to_csv(file, email, password, team_name, status, crs_id, t) ==
    LET file_exists == ~file.none
        before == IF file.none THEN <<>> ELSE file.val
        row == writerow(<<email, password, team_name, status, crs_id,
                          Timestamp(t)>>)
    IN  Some(before \o (IF file_exists THEN <<>> ELSE writerow(CsvHeader)) \o row)

CsvEmails == { <<"a", "@", "x">>, <<"a", ",", "b">> }
CsvPasswords == { <<"p">>, <<"\"">>, <<"\n", ",", "\"", "q">> }
CsvTeams == { <<>>, <<"t">> }
CsvStatuses == { <<"s">>, <<"f">> }

CsvIdle ==
    /\ csvFile = None
    /\ csvRows = <<>>
    /\ csvNow = 0

\* The export starts from a file that does not exist.
CsvInit ==
    /\ csvFile = None
    /\ csvRows = <<>>
    /\ csvNow = 0

SaveToCsv ==
    /\ Len(csvRows) < MaxCsvCalls
    /\ \E email \in CsvEmails, password \in CsvPasswords, team_name \in CsvTeams,
          status \in CsvStatuses, t \in csvNow..MaxNow :
          /\ csvFile' = save_to_csv(csvFile, email, password, team_name, status,
                                    <<>>, t)
          /\ csvRows' = Append(csvRows, <<email, password, team_name, status,
                                          <<>>, Timestamp(t)>>)
          /\ csvNow' = t
    /\ UNCHANGED notCsv

CsvNext ==
    \/ SaveToCsv

IsPrefix(s, t) == Len(s) <= Len(t) /\ SubSeq(t, 1, Len(s)) = s

HeaderLine ==
    << "e", "m", "a", "i", "l", ",", "p", "a", "s", "s", "w", "o", "r", "d", ",",
       "t", "e", "a", "m", ",", "s", "t", "a", "t", "u", "s", ",",
       "c", "r", "s", "_", "i", "d", ",",
       "t", "i", "m", "e", "s", "t", "a", "m", "p", "\r", "\n" >>

\* C23: after every save_to_csv the file is the header line followed by
\* one row per call, in call order, and what the file held before the
\* call is still its beginning.
C23_AppendOnlySingleHeader ==
    [][/\ ~csvFile'.none
       /\ IsPrefix(HeaderLine, csvFile'.val)
       /\ CsvRowsOf(csvFile'.val) = <<CsvHeader>> \o csvRows'
       /\ ~csvFile.none => IsPrefix(csvFile.val, csvFile'.val)]_csvVars

\* Two calls have been made, the second with fields that need quoting.
C23_Witness ==
    /\ Len(csvRows) = 2
    /\ csvRows[2][2] = <<"\n", ",", "\"", "q">>
    /\ ~csvFile.none
    /\ Len(CsvRowsOf(csvFile.val)) = 3


\* -------------------------------------------------------------------------
\* Loading of the team list (src/config.py:171-175)
\* -------------------------------------------------------------------------

LdRecords == LegacyRecords \cup CurrentRecords

LdIdle ==
    /\ ldRaw = <<>>
    /\ ldTeams = <<>>

\* _raw_teams = _load_teams(); TEAMS = []
LdInit ==
    /\ ldRaw \in UNION { [1..n -> LdRecords] : n \in 1..MaxTeams }
    /\ ldTeams = <<>>

\* One iteration of "for i, t in enumerate(_raw_teams)".
LdParseTeam ==
    /\ Len(ldTeams) < Len(ldRaw)
    /\ ldTeams' = Append(ldTeams,
                         _parse_team_config(ldRaw[Len(ldTeams) + 1], Len(ldTeams)))
    /\ UNCHANGED ldRaw
    /\ UNCHANGED notLd

LdNext ==
    \/ LdParseTeam

\* C24: two loaded teams with different owner emails have different
\* names.
C24_TeamNameUniqueKey ==
    \A i, j \in 1..Len(ldTeams) :
        ldTeams[i].owner_email # ldTeams[j].owner_email =>
            ldTeams[i].name # ldTeams[j].name


\* -------------------------------------------------------------------------
\* Two pipeline instances on one tracker file (src/utils.py:44-68)
\* -------------------------------------------------------------------------

Instances == {1, 2}

\* The file as json.dump leaves it: piece k of a document, or a hole left
\* by writing past the end of a file another instance has truncated.
PieceOf(doc, k) == [doc |-> doc, k |-> k]
Hole == [k |-> 0]

PiecesOf(doc) == [k \in 1..Pieces(doc) |-> PieceOf(doc, k)]

\* write(piece) at offset pos of a file opened with 'w': what lies beyond
\* stays, what lies between the end and pos is a hole.
WriteAt(cells, pos, piece) ==
    LET n == IF Len(cells) > pos + 1 THEN Len(cells) ELSE pos + 1
    IN  [i \in 1..n |-> IF i = pos + 1 THEN piece
                        ELSE IF i <= Len(cells) THEN cells[i]
                        ELSE Hole]

\* json.load of the file: the document, when the file holds exactly the
\* pieces of one.
XpParses(file) ==
    /\ file.exists
    /\ file.cells # <<>>
    /\ "doc" \in DOMAIN file.cells[1]
    /\ file.cells = PiecesOf(file.cells[1].doc)

\* load_team_tracker on the shared file.
XpLoadTracker(file) ==
    IF XpParses(file) THEN file.cells[1].doc
    ELSE [teams |-> EmptyDict, last_updated |-> None]

XpInitialDoc ==
    [teams |-> (PstTeam :> << [email |-> <<"m", "@", "x">>,
                               status |-> "registered",
                               created_at |-> 0, updated_at |-> 0] >>),
     last_updated |-> Some(0)]

XpIdle ==
    /\ xpFile = [exists |-> FALSE, cells |-> <<>>]
    /\ xpMem = [p \in Instances |-> Unset]
    /\ xpPc = [p \in Instances |-> "run"]
    /\ xpDoc = [p \in Instances |-> Unset]
    /\ xpPos = [p \in Instances |-> 0]
    /\ xpLast = Unset
    /\ xpOverlap = FALSE
    /\ xpSteps = 0
    /\ xpSaves = 0

\* Both instances start on the file an earlier run has left.
XpInit ==
    /\ xpFile \in { [exists |-> FALSE, cells |-> <<>>],
                    [exists |-> TRUE, cells |-> PiecesOf(XpInitialDoc)] }
    /\ xpMem = [p \in Instances |-> Unset]
    /\ xpPc = [p \in Instances |-> "run"]
    /\ xpDoc = [p \in Instances |-> Unset]
    /\ xpPos = [p \in Instances |-> 0]
    /\ xpLast = Unset
    /\ xpOverlap = FALSE
    /\ xpSteps = 0
    /\ xpSaves = 0

XpLoad(p) ==
    /\ xpPc[p] = "run" /\ ~xpMem[p].set
    /\ xpMem' = [xpMem EXCEPT ![p] = SetTo(XpLoadTracker(xpFile))]
    /\ UNCHANGED <<xpFile, xpPc, xpDoc, xpPos, xpLast, xpOverlap, xpSteps, xpSaves>>
    /\ UNCHANGED notXp

XpAddAccount(p) ==
    /\ xpPc[p] = "run" /\ xpMem[p].set
    /\ xpSteps < MaxSteps
    /\ \E E \in Emails, s \in PstStatuses :
          xpMem' = [xpMem EXCEPT ![p] =
                        SetTo(add_account_to_tracker(xpMem[p].val, PstTeam, E, s, 0, 0))]
    /\ xpSteps' = xpSteps + 1
    /\ UNCHANGED <<xpFile, xpPc, xpDoc, xpPos, xpLast, xpOverlap, xpSaves>>
    /\ UNCHANGED notXp

\* save_team_tracker up to open(TEAM_TRACKER_FILE, 'w'): last_updated is
\* set and the file is truncated, whoever else has it open.
XpSaveOpen(p) ==
    /\ xpPc[p] = "run" /\ xpMem[p].set
    /\ xpSaves < MaxSaves
    /\ LET doc == Put(xpMem[p].val, "last_updated", Some(xpSaves + 1))
       IN /\ xpMem' = [xpMem EXCEPT ![p] = SetTo(doc)]
          /\ xpDoc' = [xpDoc EXCEPT ![p] = SetTo(doc)]
    /\ xpFile' = [exists |-> TRUE, cells |-> <<>>]
    /\ xpPos' = [xpPos EXCEPT ![p] = 0]
    /\ xpPc' = [xpPc EXCEPT ![p] = "saving"]
    /\ xpOverlap' = (xpOverlap \/ \E q \in Instances : xpPc[q] = "saving")
    /\ xpSaves' = xpSaves + 1
    /\ UNCHANGED <<xpLast, xpSteps>>
    /\ UNCHANGED notXp

\* json.dump writes the next piece at this instance's own offset; after
\* the last one the file is closed and the save is complete.
XpSaveWrite(p) ==
    /\ xpPc[p] = "saving"
    /\ LET doc == xpDoc[p].val
           done == xpPos[p] + 1 = Pieces(doc)
       IN /\ xpFile' = [xpFile EXCEPT !.cells =
                            WriteAt(@, xpPos[p], PieceOf(doc, xpPos[p] + 1))]
          /\ xpPos' = [xpPos EXCEPT ![p] = @ + 1]
          /\ xpPc' = [xpPc EXCEPT ![p] = IF done THEN "run" ELSE "saving"]
          /\ xpLast' = IF done THEN SetTo([by |-> p, doc |-> doc]) ELSE xpLast
    /\ UNCHANGED <<xpMem, xpDoc, xpOverlap, xpSteps, xpSaves>>
    /\ UNCHANGED notXp

XpNext ==
    \/ \E p \in Instances : XpLoad(p)
    \/ \E p \in Instances : XpAddAccount(p)
    \/ \E p \in Instances : XpSaveOpen(p)
    \/ \E p \in Instances : XpSaveWrite(p)

XpQuiet == \A p \in Instances : xpPc[p] = "run"

\* C25: when no save is under way, the file holds the tracker of the
\* instance that completed its save last, whatever the order of the
\* loads and saves of the two instances.
C25_LastWriterWins ==
    (XpQuiet /\ xpLast.set) =>
        /\ XpParses(xpFile)
        /\ XpLoadTracker(xpFile) = xpLast.val.doc

\* What does hold: the same, as long as no save has started while another
\* one was under way.
LastWriterWinsWithoutOverlap ==
    (XpQuiet /\ xpLast.set /\ ~xpOverlap) =>
        /\ XpParses(xpFile)
        /\ XpLoadTracker(xpFile) = xpLast.val.doc


\* -------------------------------------------------------------------------
\* The polling budget of CPA as configured (src/config.py:312-316,
\* src/cpa_service.py:251-276)
\* -------------------------------------------------------------------------

DefaultPollInterval == 2
DefaultPollMaxRetries == 30

\* The variant whose defaults are 3 seconds and 20 attempts.
CpaPollBudget_3s_20(_cpa) ==
    [interval |-> Get(_cpa, "poll_interval", 3),
     max_retries |-> Get(_cpa, "poll_max_retries", 20)]

\* config.py:315-316
CpaPollBudget(_cpa) ==
    [interval |-> Get(_cpa, "poll_interval", DefaultPollInterval),
     max_retries |-> Get(_cpa, "poll_max_retries", DefaultPollMaxRetries)]

\* The [cpa] table: each of the two settings present or not.
DflTables ==
    { i @@ r : i \in Opt("poll_interval", {1}),
               r \in Opt("poll_max_retries", {3}) }

DflIdle ==
    /\ dflCpa = EmptyDict
    /\ dflInterval = 0
    /\ dflRetries = 0
    /\ dflPc = "import"
    /\ dflAttempt = 0
    /\ dflChecks = 0
    /\ dflSlept = 0
    /\ dflRet = FALSE

DflInit ==
    /\ dflCpa \in DflTables
    /\ dflInterval = 0
    /\ dflRetries = 0
    /\ dflPc = "import"
    /\ dflAttempt = 0
    /\ dflChecks = 0
    /\ dflSlept = 0
    /\ dflRet = FALSE

\* import config
DflImportConfig ==
    /\ dflPc = "import"
    /\ dflInterval' = CpaPollBudget(dflCpa).interval
    /\ dflRetries' = CpaPollBudget(dflCpa).max_retries
    /\ dflPc' = "idle"
    /\ UNCHANGED <<dflCpa, dflAttempt, dflChecks, dflSlept, dflRet>>
    /\ UNCHANGED notDfl

\* cpa_poll_auth_status(state), entry
DflPollStart ==
    /\ dflPc = "idle"
    /\ dflPc' = "loop"
    /\ UNCHANGED <<dflCpa, dflInterval, dflRetries, dflAttempt, dflChecks,
                   dflSlept, dflRet>>
    /\ UNCHANGED notDfl

\* one status request: return True on "ok", else go on to the sleep
DflPollCheck ==
    /\ dflPc = "loop"
    /\ RangeHasNext(dflAttempt, dflRetries)
    /\ \E outcome \in StatusOutcomes :
          IF cpa_check_auth_status(outcome).is_success
          THEN dflPc' = "done" /\ dflRet' = TRUE
          ELSE dflPc' = "sleep" /\ UNCHANGED dflRet
    /\ dflChecks' = dflChecks + 1
    /\ UNCHANGED <<dflCpa, dflInterval, dflRetries, dflAttempt, dflSlept>>
    /\ UNCHANGED notDfl

\* time.sleep(CPA_POLL_INTERVAL)
DflPollSleep ==
    /\ dflPc = "sleep"
    /\ dflSlept' = dflSlept + dflInterval
    /\ dflAttempt' = dflAttempt + 1
    /\ dflPc' = "loop"
    /\ UNCHANGED <<dflCpa, dflInterval, dflRetries, dflChecks, dflRet>>
    /\ UNCHANGED notDfl

\* the loop is exhausted: return False
DflPollTimeout ==
    /\ dflPc = "loop"
    /\ ~RangeHasNext(dflAttempt, dflRetries)
    /\ dflPc' = "done"
    /\ dflRet' = FALSE
    /\ UNCHANGED <<dflCpa, dflInterval, dflRetries, dflAttempt, dflChecks,
                   dflSlept>>
    /\ UNCHANGED notDfl

DflNext ==
    \/ DflImportConfig
    \/ DflPollStart
    \/ DflPollCheck
    \/ DflPollSleep
    \/ DflPollTimeout

DflUnconfigured == dflCpa = EmptyDict /\ dflPc # "import"

\* C26 as stated: without polling settings the poll sleeps 3 seconds
\* between attempts and gives up after 20 attempts.
C26_Default3sTimes20 ==
    DflUnconfigured =>
        /\ dflInterval = 3 /\ dflRetries = 20
        /\ dflSlept = 3 * dflAttempt
        /\ dflChecks <= 20
        /\ (dflPc = "done" /\ ~dflRet) => dflChecks = 20

\* C26, amended: without polling settings the poll sleeps 2 seconds
\* between attempts and gives up after 30 attempts.
C26_Default2sTimes30 ==
    DflUnconfigured =>
        /\ dflInterval = 2 /\ dflRetries = 30
        /\ dflSlept = 2 * dflAttempt
        /\ dflChecks <= 30
        /\ (dflPc = "done" /\ ~dflRet) => dflChecks = 30

\* An unconfigured poll has run out of attempts.
C26_Witness ==
    /\ DflUnconfigured
    /\ dflPc = "done" /\ ~dflRet
    /\ dflChecks = 30 /\ dflSlept = 60


\* -------------------------------------------------------------------------
\* Proxy rotation (src/config.py:370-428)
\* -------------------------------------------------------------------------

ProxyOf(n) == [type |-> "socks5", host |-> n]

\* The configured pools: up to MaxProxies proxies, all different.
ProxyPools == { [i \in 1..n |-> ProxyOf(i)] : n \in 0..MaxProxies }

\* The variant that advances the counter before it indexes the pool.
get_next_proxy_advance_first(pool, index) ==
    IF pool = <<>> THEN [ret |-> None, index |-> index]
    ELSE [ret |-> Some(pool[((index + 1) % Len(pool)) + 1]), index |-> index + 1]

\* get_next_proxy: PROXIES[_proxy_index % len(PROXIES)], then the counter
\* goes up by one; None, and no change, for an empty pool.
get_next_proxy(pool, index) ==
    IF pool = <<>> THEN [ret |-> None, index |-> index]
    ELSE [ret |-> Some(pool[(index % Len(pool)) + 1]), index |-> index + 1]

\* format_proxy_url: the proxy without credentials, "type://host:port"
format_proxy_url(proxy) == [type |-> proxy.type, host |-> proxy.host]

\* get_proxy_dict: None without proxies, else the next proxy as the
\* dictionary requests expects.
get_proxy_dict(enabled, pool, index) ==
    IF ~enabled \/ pool = <<>> THEN [ret |-> None, index |-> index, called |-> FALSE]
    ELSE LET r == get_next_proxy(pool, index)
         IN  [ret |-> IF r.ret.none THEN None
                      ELSE Some([http |-> format_proxy_url(r.ret.val),
                                 https |-> format_proxy_url(r.ret.val)]),
              index |-> r.index, called |-> TRUE, proxy |-> r.ret]

PxIdle ==
    /\ PROXY_ENABLED = FALSE
    /\ PROXIES = <<>>
    /\ _proxy_index = 0
    /\ pxLog = <<>>

\* config.py:366-368
PxInit ==
    /\ PROXY_ENABLED \in BOOLEAN
    /\ \E proxies \in ProxyPools :
          PROXIES = IF PROXY_ENABLED THEN proxies ELSE <<>>
    /\ _proxy_index = 0
    /\ pxLog = <<>>

GetNextProxy ==
    /\ Len(pxLog) < MaxProxyCalls
    /\ LET r == get_next_proxy(PROXIES, _proxy_index)
       IN /\ _proxy_index' = r.index
          /\ pxLog' = Append(pxLog, [via |-> "get_next_proxy", ret |-> r.ret,
                                     before |-> _proxy_index, after |-> r.index])
    /\ UNCHANGED <<PROXY_ENABLED, PROXIES>>
    /\ UNCHANGED notPx

GetProxyDict ==
    /\ Len(pxLog) < MaxProxyCalls
    /\ LET r == get_proxy_dict(PROXY_ENABLED, PROXIES, _proxy_index)
       IN /\ _proxy_index' = r.index
          /\ pxLog' = Append(pxLog, [via |-> "get_proxy_dict",
                                     ret |-> IF r.called THEN r.proxy ELSE None,
                                     before |-> _proxy_index, after |-> r.index])
    /\ UNCHANGED <<PROXY_ENABLED, PROXIES>>
    /\ UNCHANGED notPx

PxNext ==
    \/ GetNextProxy
    \/ GetProxyDict

\* C27: with n >= 1 proxies the k-th call returns element (k-1) mod n of
\* the pool and adds one to the counter, so n calls in a row return every
\* proxy once; with no proxy the call returns None and the counter stays.
C27_RoundRobin ==
    LET n == Len(PROXIES)
    IN  \A k \in 1..Len(pxLog) :
            IF n >= 1
            THEN /\ pxLog[k].ret = Some(PROXIES[((k - 1) % n) + 1])
                 /\ pxLog[k].after = pxLog[k].before + 1
                 /\ (k + n - 1 <= Len(pxLog)) =>
                        \A j \in 1..n :
                            Cardinality({ i \in k..(k + n - 1) :
                                            pxLog[i].ret = Some(PROXIES[j]) }) = 1
            ELSE /\ pxLog[k].ret = None
                 /\ pxLog[k].after = pxLog[k].before

\* Four calls on a pool of three: the fourth returns the first proxy again.
C27_Witness ==
    /\ Len(PROXIES) = 3
    /\ Len(pxLog) = 4
    /\ pxLog[4].ret = Some(PROXIES[1])
    /\ _proxy_index = 4


\* -------------------------------------------------------------------------
\* The domain blacklist (src/config.py:231-297)
\* -------------------------------------------------------------------------

ConfiguredDomains == {"x.test", "y.test"}
AddedDomains == {"", "x.test", "y.test", "z.test"}

\* gptmail.domains: a list of up to two configured domains
DomainLists == UNION { [1..n -> ConfiguredDomains] : n \in 0..2 }

\* list(a_set): the members in some order
Orderings(S) == { s \in [1..Cardinality(S) -> S] : \A i, j \in DOMAIN s : s[i] = s[j] => i = j }

\* What domain_blacklist.json may hold when the program starts.
BlacklistFiles ==
    { None, Some(NotJson), Some(Json(JList(<<>>))), Some(Json(JObj(EmptyDict))),
      Some(Json(JObj([domains |-> JNone]))) }
    \cup { Some(Json(JObj([domains |-> JList(l)]))) :
             l \in { <<>>, <<"x.test">>, <<"z.test">>, <<"x.test", "y.test">> } }

\* _load_blacklist: set(data.get("domains", [])), the empty set when the
\* file is missing or anything raises.
_load_blacklist(file) ==
    IF file.none THEN {}
    ELSE IF ~file.val.valid THEN {}
    ELSE IF file.val.obj.type # "obj" THEN {}
    ELSE LET domains == Get(file.val.obj.obj, "domains", JList(<<>>))
         IN  IF domains.type = "list" THEN { domains.list[i] : i \in DOMAIN domains.list }
             ELSE {}

SaveOutcomes == {"written", "open_fails", "write_fails"}

\* _save_blacklist: the file rewritten from the set; nothing is raised.
_save_blacklist(file, blacklist, outcome, order) ==
    CASE outcome = "written" -> Some(Json(JObj([domains |-> JList(order)])))
      [] outcome = "open_fails" -> file
      [] outcome = "write_fails" -> Some(NotJson)

\* The variant that keeps only the newest domain.
add_domain_to_blacklist_replacing(blacklist, file, domain, outcome, order) ==
    IF domain # "" /\ domain \notin blacklist
    THEN [ret |-> TRUE, blacklist |-> {domain},
          file |-> _save_blacklist(file, {domain}, outcome, order)]
    ELSE [ret |-> FALSE, blacklist |-> blacklist, file |-> file]

\* add_domain_to_blacklist
add_domain_to_blacklist(blacklist, file, domain, outcome, order) ==
    IF domain # "" /\ domain \notin blacklist
    THEN [ret |-> TRUE, blacklist |-> blacklist \cup {domain},
          file |-> _save_blacklist(file, blacklist \cup {domain}, outcome, order)]
    ELSE [ret |-> FALSE, blacklist |-> blacklist, file |-> file]

\* The list get_random_gptmail_domain chooses from.
available(domains, blacklist) == SelectSeq(domains, LAMBDA d : d \notin blacklist)

\* get_random_gptmail_domain: the values it can return
get_random_gptmail_domain(domains, blacklist) ==
    IF available(domains, blacklist) # <<>>
    THEN SeqToSet(available(domains, blacklist))
    ELSE {""}

BlIdle ==
    /\ GPTMAIL_DOMAINS = <<>>
    /\ _domain_blacklist = {}
    /\ blFile = None
    /\ blAdded = {}
    /\ blGot = <<>>
    /\ blCalls = 0

\* config.py:231 and config.py:297
BlInit ==
    /\ GPTMAIL_DOMAINS \in DomainLists
    /\ blFile \in BlacklistFiles
    /\ _domain_blacklist = _load_blacklist(blFile)
    /\ blAdded = {}
    /\ blGot = <<>>
    /\ blCalls = 0

AddDomainToBlacklist ==
    /\ blCalls < MaxBlacklistCalls
    /\ \E domain \in AddedDomains, outcome \in SaveOutcomes :
       \E order \in Orderings(_domain_blacklist \cup {domain}) :
          LET r == add_domain_to_blacklist(_domain_blacklist, blFile, domain, outcome, order)
          IN  /\ _domain_blacklist' = r.blacklist
              /\ blFile' = r.file
              /\ blAdded' = blAdded \cup {domain}
    /\ blCalls' = blCalls + 1
    /\ UNCHANGED <<GPTMAIL_DOMAINS, blGot>>
    /\ UNCHANGED notBl

GetRandomGptmailDomain ==
    /\ blCalls < MaxBlacklistCalls
    /\ \E chosen \in get_random_gptmail_domain(GPTMAIL_DOMAINS, _domain_blacklist) :
          blGot' = Append(blGot, [ret |-> chosen, blacklist |-> _domain_blacklist])
    /\ blCalls' = blCalls + 1
    /\ UNCHANGED <<GPTMAIL_DOMAINS, _domain_blacklist, blFile, blAdded>>
    /\ UNCHANGED notBl

BlNext ==
    \/ AddDomainToBlacklist
    \/ GetRandomGptmailDomain

\* C28: the blacklist in memory holds every non-empty domain ever added
\* and never loses one, and get_random_gptmail_domain returns a configured
\* domain outside the blacklist, or "" when every configured domain is in it.
C28_BlacklistAppendOnlyAndHonoured ==
    /\ [](/\ blAdded \ {""} \subseteq _domain_blacklist
          /\ \A i \in DOMAIN blGot :
                IF SeqToSet(GPTMAIL_DOMAINS) \subseteq blGot[i].blacklist
                THEN blGot[i].ret = ""
                ELSE /\ blGot[i].ret \in SeqToSet(GPTMAIL_DOMAINS)
                     /\ blGot[i].ret \notin blGot[i].blacklist)
    /\ [][_domain_blacklist \subseteq _domain_blacklist']_blVars

\* A domain is added after another one, both stay, and the only configured
\* domain left is the one returned.
C28_Witness ==
    /\ GPTMAIL_DOMAINS = <<"x.test", "y.test">>
    /\ blAdded = {"x.test", "z.test"}
    /\ _domain_blacklist = {"x.test", "z.test"}
    /\ Len(blGot) = 1
    /\ blGot[1].ret = "y.test"
    /\ blGot[1].blacklist = {"x.test", "z.test"}


\* -------------------------------------------------------------------------
\* What an upsert writes and what it leaves (utils.py:71-96, 176-197)
\* -------------------------------------------------------------------------

\* a row without some of its keys
Without(row, keys) == [k \in DOMAIN row \ keys |-> row[k]]

\* the list of a team, empty when the tracker has no such team
ListOf(tr, T) == IF T \in DOMAIN tr.teams THEN tr.teams[T] ELSE <<>>

\* every team but T has the list it had
OtherTeamsKept(old, new, T) ==
    /\ DOMAIN new.teams = DOMAIN old.teams \cup {T}
    /\ \A other \in DOMAIN old.teams \ {T} : new.teams[other] = old.teams[other]

\* The step updates the first row of (T, E) in place: status, updated_at
\* and, for add_account_with_password, password are written, everything
\* else of the tracker stays.
UpdatesInPlace(old, new, call, clock) ==
    LET T == call.team
        i == FirstIdx(old.teams[T], call.email)
        written == IF call.op = "add_account_with_password"
                   THEN {"status", "updated_at", "password"}
                   ELSE {"status", "updated_at"}
    IN  /\ OtherTeamsKept(old, new, T)
        /\ Len(new.teams[T]) = Len(old.teams[T])
        /\ \A j \in 1..Len(old.teams[T]) : j # i => new.teams[T][j] = old.teams[T][j]
        /\ Without(new.teams[T][i], written) = Without(old.teams[T][i], written)
        /\ new.teams[T][i].status = call.status
        /\ new.teams[T][i].updated_at = clock
        /\ call.op = "add_account_with_password"
              => new.teams[T][i].password = call.password

\* The step appends one row for (T, E) and keeps everything else.
AppendsOne(old, new, call) ==
    LET T == call.team
    IN  /\ OtherTeamsKept(old, new, T)
        /\ Len(new.teams[T]) = Len(ListOf(old, T)) + 1
        /\ SubSeq(new.teams[T], 1, Len(ListOf(old, T))) = ListOf(old, T)
        /\ new.teams[T][Len(new.teams[T])].email = call.email
        /\ new.teams[T][Len(new.teams[T])].status = call.status

UpsertStep == nCalls' = nCalls + 1 /\ IsUpsert(lastCall')

\* C29: an upsert on an existing (team, email) row overwrites status (and
\* password when supplied) and refreshes updated_at, and leaves created_at,
\* role, email, the row's position and every other row of every team; an
\* upsert of a new key appends exactly one row whose created_at equals its
\* updated_at.
C29_UpsertFrame ==
    [][UpsertStep =>
         IF Rows(tracker, lastCall'.team, lastCall'.email) # {}
         THEN UpdatesInPlace(tracker, tracker', lastCall', now')
         ELSE /\ AppendsOne(tracker, tracker', lastCall')
              /\ LET list == tracker'.teams[lastCall'.team]
                 IN  list[Len(list)].created_at = list[Len(list)].updated_at]_vars

\* The same frame with the two times of a new row as the code reads them:
\* one after the other.
UpsertFrameWithTwoClockReads ==
    [][UpsertStep =>
         IF Rows(tracker, lastCall'.team, lastCall'.email) # {}
         THEN UpdatesInPlace(tracker, tracker', lastCall', now')
         ELSE /\ AppendsOne(tracker, tracker', lastCall')
              /\ LET list == tracker'.teams[lastCall'.team]
                 IN  /\ list[Len(list)].created_at <= list[Len(list)].updated_at
                     /\ list[Len(list)].updated_at = now']_vars


UpdateStep == nCalls' = nCalls + 1 /\ lastCall'.op = "update_account_status"

\* C34: update_account_status adds and removes no row: for an existing
\* (team, email) it writes status and updated_at of that row only; for an
\* unknown team or email it leaves the tracker as it is.
C34_UpdateFrame ==
    [][UpdateStep =>
         IF Rows(tracker, lastCall'.team, lastCall'.email) # {}
         THEN UpdatesInPlace(tracker, tracker', lastCall', now')
         ELSE tracker' = tracker]_vars

\* A row written by an earlier version (no status, no password) has been
\* given a status one second after the load, and team b, asked for or not,
\* does not exist.
C34_Witness ==
    /\ lastCall = [op |-> "update_account_status", team |-> <<"a">>,
                   email |-> <<"m", "@", "x">>, status |-> "authorized"]
    /\ DOMAIN tracker.teams = {<<"a">>}
    /\ Len(tracker.teams[<<"a">>]) = 1
    /\ tracker.teams[<<"a">>][1] = [email |-> <<"m", "@", "x">>,
                                    status |-> "authorized",
                                    created_at |-> 0, updated_at |-> 1]

\* -------------------------------------------------------------------------
\* What add_team_owners_to_tracker writes (utils.py:283-363)
\* -------------------------------------------------------------------------

OwnersStep == nCalls' = nCalls + 1 /\ lastCall'.op = "add_team_owners_to_tracker"

\* the owner email of a team: owner_email, else user.email of the raw entry
OwnerEmail(team) ==
    IF Get(team, "owner_email", <<>>) # <<>> THEN team.owner_email
    ELSE GetIn(Get(team, "raw", EmptyDict), "user", "email", <<>>)

\* the teams of team.json with an auth token, a name and an owner email
OwnerTeams ==
    { i \in 1..Len(TEAMS) : /\ Get(TEAMS[i], "auth_token", <<>>) # <<>>
                           /\ Get(TEAMS[i], "name", <<>>) # <<>>
                           /\ OwnerEmail(TEAMS[i]) # <<>> }

\* those whose (team, email) the tracker does not hold yet
MissingOwners(tr) ==
    { i \in OwnerTeams : Rows(tr, TEAMS[i].name, OwnerEmail(TEAMS[i])) = {} }

\* the number of rows of the tracker
RowTotal(tr) ==
    LET names == DOMAIN tr.teams
        count[S \in SUBSET names] ==
            IF S = {} THEN 0
            ELSE LET T == CHOOSE T \in S : TRUE
                 IN  Len(tr.teams[T]) + count[S \ {T}]
    IN  count[names]

\* every list of old is the beginning of the list of new
OnlyAppended(old, new) ==
    \A T \in DOMAIN old.teams :
        /\ T \in DOMAIN new.teams
        /\ Len(old.teams[T]) <= Len(new.teams[T])
        /\ SubSeq(new.teams[T], 1, Len(old.teams[T])) = old.teams[T]

\* C30: add_team_owners_to_tracker only appends. An owner whose (team,
\* email) is in the tracker is left as it is, so a second call adds 0; every
\* other team with token, name and owner email gets exactly one row, of role
\* owner and status completed (current format, authorized), registered
\* (current format, not authorized) or team_owner (legacy); teams without
\* token get none; with owner inclusion disabled the call returns 0 and
\* writes nothing.
C30_OwnersOnlyAppended ==
    [][OwnersStep =>
         IF ~lastCall'.include
         THEN ret' = 0 /\ tracker' = tracker
         ELSE /\ OnlyAppended(tracker, tracker')
              /\ ret' = Cardinality(MissingOwners(tracker))
              /\ RowTotal(tracker') = RowTotal(tracker) + ret'
              /\ MissingOwners(tracker') = {}
              /\ \A i \in MissingOwners(tracker) :
                    LET rows == Rows(tracker', TEAMS[i].name, OwnerEmail(TEAMS[i]))
                    IN  /\ Cardinality(rows) = 1
                        /\ \A k \in rows :
                              LET row == tracker'.teams[TEAMS[i].name][k]
                              IN  /\ row.role = "owner"
                                  /\ row.status =
                                       IF TEAMS[i].format = "new"
                                       THEN IF Get(TEAMS[i], "authorized", FALSE)
                                            THEN "completed" ELSE "registered"
                                       ELSE "team_owner"
              /\ (lastCall.op = "add_team_owners_to_tracker" /\ lastCall.include)
                    => ret' = 0 /\ tracker' = tracker]_vars

\* The owner a@x is in the tracker as failed; the call keeps that row and
\* adds the three other owners that have a token.
C30_Witness ==
    /\ lastCall = [op |-> "add_team_owners_to_tracker", include |-> TRUE]
    /\ ret = 3
    /\ \E k \in Rows(tracker, <<"a">>, <<"a", "@", "x">>) :
          tracker.teams[<<"a">>][k].status = "failed"
    /\ \E k \in Rows(tracker, <<"a">>, <<"a", "@", "y">>) :
          /\ tracker.teams[<<"a">>][k].status = "team_owner"
          /\ tracker.teams[<<"a">>][k].role = "owner"
    /\ \E k \in Rows(tracker, <<"b">>, <<"b", "@", "x">>) :
          tracker.teams[<<"b">>][k].status = "registered"
    /\ Rows(tracker, <<"c">>, <<"c", "@", "x">>) = {}


\* -------------------------------------------------------------------------
\* Saving discovered team data to team.json (src/config.py:172-212)
\* -------------------------------------------------------------------------

\* team.json at the start: a current-format owner that still has to log in
\* or has a token, and a legacy owner.
SvRawTeams ==
    { << new, [user |-> JObj([email |-> <<"b", "@", "y">>]),
               account |-> JObj([id |-> <<"2">>]),
               accessToken |-> <<"t">>] >> :
        new \in { [account |-> JStr(<<"a", "@", "x">>), password |-> <<"p">>],
                  [account |-> JStr(<<"a", "@", "x">>), password |-> <<"p">>,
                   token |-> <<"t">>] } }

\* what the pipeline discovers for a team: an account id, a token, or that
\* the team is authorized
Discoveries ==
    { [key |-> "account_id", value |-> <<"i">>],
      [key |-> "auth_token", value |-> <<"t">>],
      [key |-> "auth_token", value |-> <<"u">>],
      [key |-> "authorized", value |-> TRUE] }

\* the body of the loop of save_team_json for one team (lines 187-201): the
\* team with its raw brought up to date, and whether anything was copied
SaveTeam(team) ==
    IF Get(team, "format", "") # "new" THEN [team |-> team, updated |-> FALSE]
    ELSE LET raw0 == Get(team, "raw", EmptyDict)
             id == Get(team, "account_id", <<>>) # <<>>
                   /\ Get(raw0, "account_id", <<>>) # team.account_id
             raw1 == IF id THEN Put(raw0, "account_id", team.account_id) ELSE raw0
             tok == Get(team, "auth_token", <<>>) # <<>>
                    /\ Get(raw1, "token", <<>>) # team.auth_token
             raw2 == IF tok THEN Put(raw1, "token", team.auth_token) ELSE raw1
             auth == Get(team, "authorized", FALSE) /\ ~Get(raw2, "authorized", FALSE)
             raw3 == IF auth THEN Put(raw2, "authorized", TRUE) ELSE raw2
         IN  [team |-> [team EXCEPT !.raw = raw3], updated |-> id \/ tok \/ auth]

\* how open(TEAM_JSON_FILE, "w") and json.dump end
WriteOutcomes == { "written", "open_fails", "write_fails" }

\* save_team_json: the raws are brought up to date in memory first, then
\* the whole of _raw_teams is written if anything was copied.
save_team_json(teams, file, outcome) ==
    IF ~file.exists
    THEN [ret |-> FALSE, teams |-> teams, file |-> file, attempted |-> FALSE]
    ELSE LET saved == [i \in 1..Len(teams) |-> SaveTeam(teams[i]).team]
             updated == \E i \in 1..Len(teams) : SaveTeam(teams[i]).updated
             raws == [i \in 1..Len(teams) |-> saved[i].raw]
         IN  IF ~updated
             THEN [ret |-> FALSE, teams |-> saved, file |-> file, attempted |-> FALSE]
             ELSE CASE outcome = "written" ->
                         [ret |-> TRUE, teams |-> saved, attempted |-> TRUE,
                          file |-> [exists |-> TRUE, doc |-> Some(raws)]]
                    [] outcome = "open_fails" ->
                         [ret |-> FALSE, teams |-> saved, attempted |-> TRUE,
                          file |-> file]
                    [] outcome = "write_fails" ->
                         [ret |-> FALSE, teams |-> saved, attempted |-> TRUE,
                          file |-> [exists |-> TRUE, doc |-> None]]

\* Whether a current-format team holds an account id, a token or the
\* authorized flag that the file on disk does not hold.
Unsaved(teams, file) ==
    /\ file.exists
    /\ \E i \in 1..Len(teams) :
          /\ Get(teams[i], "format", "") = "new"
          /\ LET team == teams[i]
                 disk == IF file.doc.none THEN EmptyDict ELSE file.doc.val[i]
             IN  \/ team.account_id # <<>>
                    /\ Get(disk, "account_id", <<>>) # team.account_id
                 \/ team.auth_token # <<>>
                    /\ Get(disk, "token", <<>>) # team.auth_token
                 \/ team.authorized /\ ~Get(disk, "authorized", FALSE)

SvIdle ==
    /\ svTeams = <<>>
    /\ svFile = [exists |-> FALSE, doc |-> None]
    /\ svLog = <<>>
    /\ svSteps = 0

\* config.py:113 and 172-175: TEAMS is parsed from the file as it is
SvInit ==
    /\ \E raws \in SvRawTeams :
          /\ svFile = [exists |-> TRUE, doc |-> Some(raws)]
          /\ svTeams = [i \in 1..Len(raws) |-> _parse_team_config(raws[i], i - 1)]
    /\ svLog = <<>>
    /\ svSteps = 0

\* The pipeline stores what it has discovered in the team's entry of TEAMS.
SvDiscover ==
    /\ svSteps < MaxTeamSteps
    /\ \E i \in 1..Len(svTeams), d \in Discoveries :
          /\ Get(svTeams[i], d.key, d.value) # d.value
          /\ svTeams' = [svTeams EXCEPT ![i] = Put(@, d.key, d.value)]
    /\ svSteps' = svSteps + 1
    /\ UNCHANGED <<svFile, svLog>>
    /\ UNCHANGED notSv

SaveTeamJson ==
    /\ svSteps < MaxTeamSteps
    /\ \E outcome \in WriteOutcomes :
          LET r == save_team_json(svTeams, svFile, outcome)
          IN  /\ svTeams' = r.teams
              /\ svFile' = r.file
              /\ svLog' = Append(svLog, [unsaved |-> Unsaved(svTeams, svFile),
                                         behind |-> \E i \in 1..Len(svTeams) :
                                                       svTeams[i].raw # r.teams[i].raw,
                                         attempted |-> r.attempted,
                                         ret |-> r.ret])
    /\ svSteps' = svSteps + 1
    /\ UNCHANGED notSv

SvNext ==
    \/ SvDiscover
    \/ SaveTeamJson

\* C36: a call of save_team_json made while a current-format team holds an
\* account id, a token or the authorized flag that team.json does not hold
\* attempts the write, also after a call whose write failed; a call with
\* nothing new to persist returns False without writing.
C36_UnsavedDataIsWritten ==
    \A k \in 1..Len(svLog) :
        IF svLog[k].unsaved
        THEN svLog[k].attempted
        ELSE ~svLog[k].attempted /\ ~svLog[k].ret

\* What the code compares the teams with is their raw entries in memory,
\* which a call brings up to date before it opens the file: a call attempts
\* the write exactly when some raw entry was behind its team, whatever the
\* file holds, and returns True only after a write.
WriteFollowsRawInMemory ==
    \A k \in 1..Len(svLog) :
        /\ svLog[k].attempted <=> svLog[k].behind
        /\ svLog[k].ret => svLog[k].attempted


\* -------------------------------------------------------------------------
\* The Tk GUI: start, stop and finish of a task (src/tk_gui/main.py:322-387)
\* and the redirection of output (src/tk_gui/io_redirect.py:40-65)
\* -------------------------------------------------------------------------

\* The streams. sys.stdout is None in a windowed build, Some(stream)
\* otherwise; a queue writer is made anew by every __enter__.
Console(stream) == Some([kind |-> "console", task |-> 0, stream |-> stream])
QueueWriter(t, stream) == Some([kind |-> "queue", task |-> t, stream |-> stream])

\* the radio buttons of main.py:76-82
GuiModes == { "all", "single", "register", "test", "status" }

\* What the operator has chosen and what is on disk when start is pressed:
\* every mode, and every way the checks of lines 331-342 end.
StartRequests ==
    { [mode |-> m, config_exists |-> TRUE, team_exists |-> TRUE, count |-> 4] :
        m \in GuiModes }
    \cup { [mode |-> "status", config_exists |-> FALSE, team_exists |-> FALSE,
            count |-> 4],
           [mode |-> "register", config_exists |-> TRUE, team_exists |-> FALSE,
            count |-> 4],
           [mode |-> "register", config_exists |-> TRUE, team_exists |-> TRUE,
            count |-> 0],
           [mode |-> "single", config_exists |-> FALSE, team_exists |-> TRUE,
            count |-> 4],
           [mode |-> "test", config_exists |-> TRUE, team_exists |-> FALSE,
            count |-> 4] }

\* main.py:20-24: the run state a window is built with
IdleState == [running |-> FALSE, stop_event |-> None, thread |-> None]

\* main.py:323-324, with the variant that starts whatever the flag says
StartRefused_never(state) == FALSE
StartRefused(state) == state.running

\* main.py:331-342: the checks on the configuration before a start
Validate(mode, config_exists, team_exists, count) ==
    IF mode \in {"all", "single", "test", "register"} /\ ~config_exists
    THEN "no_config"
    ELSE IF mode \in {"all", "single", "test"} /\ ~team_exists
    THEN "no_team"
    ELSE IF mode = "register" /\ count <= 0
    THEN "bad_count"
    ELSE "ok"

\* main.py:344, with the variant that keeps the event of the run before
ReusedStopEvent(state, made) ==
    IF state.stop_event.none
    THEN [id |-> Len(made) + 1, events |-> Append(made, FALSE)]
    ELSE [id |-> state.stop_event.val, events |-> made]
NewStopEvent(state, made) ==
    [id |-> Len(made) + 1, events |-> Append(made, FALSE)]

\* How the function of the worker module ends: it returns, it returns early
\* because it saw its stop event set between two steps, it raises an
\* exception that target catches and prints (lines 366-369), or it raises
\* one that target does not catch, such as SystemExit.
BodyOutcomes == { "returned", "stopped", "caught", "uncaught" }

\* main.py:370-371: the callback is scheduled in a finally clause; with the
\* variant that schedules it in an else clause
FinishScheduled_else(outcome) == outcome \in {"returned", "stopped"}
FinishScheduled(outcome) == TRUE

GuiIdle ==
    /\ _state = IdleState
    /\ _btn_start = "normal"
    /\ _btn_stop = "disabled"
    /\ _status_var = "ready"
    /\ stopEvents = <<>>
    /\ workers = <<>>
    /\ sys_stdout = Console("stdout")
    /\ sys_stderr = Console("stderr")
    /\ installed = [out |-> Console("stdout"), err |-> Console("stderr")]
    /\ afterQueue = 0
    /\ guiHandled = [op |-> "built", result |-> "ready"]
    /\ stopsFor = {}
    /\ lastEnded = [task |-> 0, outcome |-> "none"]

\* main.py:36-41, 124-129: the window as it is built, in a console build or
\* in a windowed one
GuiInit ==
    /\ _state = IdleState
    /\ _btn_start = "normal"
    /\ _btn_stop = "disabled"
    /\ _status_var = "ready"
    /\ stopEvents = <<>>
    /\ workers = <<>>
    /\ installed \in { [out |-> Console("stdout"), err |-> Console("stderr")],
                       [out |-> None, err |-> None] }
    /\ sys_stdout = installed.out
    /\ sys_stderr = installed.err
    /\ afterQueue = 0
    /\ guiHandled = [op |-> "built", result |-> "ready"]
    /\ stopsFor = {}
    /\ lastEnded = [task |-> 0, outcome |-> "none"]

\* _start_task (main.py:322-375), run by the GUI thread
StartTask(mode, config_exists, team_exists, count) ==
    LET verdict == IF StartRefused(_state) THEN "busy"
                   ELSE Validate(mode, config_exists, team_exists, count)
    IN  /\ verdict = "ok" => Len(workers) < MaxTasks
        /\ guiHandled' = [op |-> "start", result |-> verdict]
        /\ IF verdict = "ok"
           THEN LET made == NewStopEvent(_state, stopEvents)
                    t == Len(workers) + 1
                IN  /\ stopEvents' = made.events
                    /\ _state' = [running |-> TRUE, stop_event |-> Some(made.id),
                                  thread |-> Some(t)]
                    /\ _btn_start' = "disabled"
                    /\ _btn_stop' = "normal"
                    /\ _status_var' = "running"
                    /\ workers' = Append(workers,
                          [pc |-> "save_stdout", stop_aware |-> mode # "status",
                           stop_event |-> made.id, _old_stdout |-> None,
                           _old_stderr |-> None])
                    /\ lastEnded' = [task |-> t, outcome |-> "none"]
           ELSE UNCHANGED <<_state, _btn_start, _btn_stop, _status_var,
                            stopEvents, workers, lastEnded>>
        /\ UNCHANGED <<sys_stdout, sys_stderr, installed, afterQueue, stopsFor>>
        /\ UNCHANGED notGui

\* _stop_task (main.py:377-381), run by the GUI thread
StopTask ==
    /\ IF ~_state.running \/ _state.stop_event.none
       THEN /\ guiHandled' = [op |-> "stop", result |-> "ignored"]
            /\ UNCHANGED <<_status_var, stopEvents, stopsFor>>
       ELSE /\ guiHandled' = [op |-> "stop", result |-> "set"]
            /\ _status_var' = "stopping"
            /\ stopEvents' = [stopEvents EXCEPT ![_state.stop_event.val] = TRUE]
            /\ stopsFor' = stopsFor \cup {_state.thread.val}
    /\ UNCHANGED <<_state, _btn_start, _btn_stop, workers, sys_stdout,
                   sys_stderr, installed, afterQueue, lastEnded>>
    /\ UNCHANGED notGui

\* _on_task_finished (main.py:383-387), run by the event loop of the GUI
\* thread for a callback that a worker scheduled
OnTaskFinished ==
    /\ afterQueue > 0
    /\ afterQueue' = afterQueue - 1
    /\ _state' = [_state EXCEPT !.running = FALSE]
    /\ _btn_start' = "normal"
    /\ _btn_stop' = "disabled"
    /\ _status_var' = "ended"
    /\ guiHandled' = [op |-> "finished", result |-> "idle"]
    /\ UNCHANGED <<stopEvents, workers, sys_stdout, sys_stderr, installed,
                   stopsFor, lastEnded>>
    /\ UNCHANGED notGui

WorkerAt(t, pc) == t \in 1..Len(workers) /\ workers[t].pc = pc
WorkerFrame == <<_state, _btn_start, _btn_stop, _status_var, stopEvents,
                 installed, guiHandled, stopsFor>>

\* __enter__ (io_redirect.py:49-56), one statement at a time
EnterSaveStdout(t) ==
    /\ WorkerAt(t, "save_stdout")
    /\ workers' = [workers EXCEPT ![t]._old_stdout = sys_stdout,
                                  ![t].pc = "save_stderr"]
    /\ UNCHANGED <<sys_stdout, sys_stderr, afterQueue, lastEnded>>
    /\ UNCHANGED WorkerFrame /\ UNCHANGED notGui

EnterSaveStderr(t) ==
    /\ WorkerAt(t, "save_stderr")
    /\ workers' = [workers EXCEPT ![t]._old_stderr = sys_stderr,
                                  ![t].pc = "set_stdout"]
    /\ UNCHANGED <<sys_stdout, sys_stderr, afterQueue, lastEnded>>
    /\ UNCHANGED WorkerFrame /\ UNCHANGED notGui

EnterSetStdout(t) ==
    /\ WorkerAt(t, "set_stdout")
    /\ sys_stdout' = QueueWriter(t, "stdout")
    /\ workers' = [workers EXCEPT ![t].pc = "set_stderr"]
    /\ UNCHANGED <<sys_stderr, afterQueue, lastEnded>>
    /\ UNCHANGED WorkerFrame /\ UNCHANGED notGui

EnterSetStderr(t) ==
    /\ WorkerAt(t, "set_stderr")
    /\ sys_stderr' = QueueWriter(t, "stderr")
    /\ workers' = [workers EXCEPT ![t].pc = "body"]
    /\ UNCHANGED <<sys_stdout, afterQueue, lastEnded>>
    /\ UNCHANGED WorkerFrame /\ UNCHANGED notGui

\* main.py:353-371: the function of the worker module runs and ends (the
\* status view is given no stop event), what it raised is printed, and the
\* finally clause calls self.after(0, self._on_task_finished). The call and
\* its arguments are over with it.
BodyEnds(t, outcome) ==
    /\ WorkerAt(t, "body")
    /\ outcome = "stopped" =>
          workers[t].stop_aware /\ stopEvents[workers[t].stop_event]
    /\ afterQueue' = IF FinishScheduled(outcome) THEN afterQueue + 1
                     ELSE afterQueue
    /\ lastEnded' = [task |-> t, outcome |-> outcome]
    /\ workers' = [workers EXCEPT ![t].pc = "restore_stdout",
                                  ![t].stop_aware = FALSE]
    /\ UNCHANGED <<sys_stdout, sys_stderr>>
    /\ UNCHANGED WorkerFrame /\ UNCHANGED notGui

\* A thread that has left target: the closure of target and the redirection
\* object are gone with it.
Exited(w) ==
    [pc |-> "exited", stop_aware |-> FALSE, stop_event |-> w.stop_event,
     _old_stdout |-> None, _old_stderr |-> None]

\* __exit__ (io_redirect.py:58-65), one statement at a time
ExitRestoreStdout(t) ==
    /\ WorkerAt(t, "restore_stdout")
    /\ sys_stdout' = IF ~workers[t]._old_stdout.none
                     THEN workers[t]._old_stdout ELSE sys_stdout
    /\ workers' = [workers EXCEPT ![t].pc = "restore_stderr"]
    /\ UNCHANGED <<sys_stderr, afterQueue, lastEnded>>
    /\ UNCHANGED WorkerFrame /\ UNCHANGED notGui

ExitRestoreStderr(t) ==
    /\ WorkerAt(t, "restore_stderr")
    /\ sys_stderr' = IF ~workers[t]._old_stderr.none
                     THEN workers[t]._old_stderr ELSE sys_stderr
    /\ workers' = [workers EXCEPT ![t] = Exited(workers[t])]
    /\ UNCHANGED <<sys_stdout, afterQueue, lastEnded>>
    /\ UNCHANGED WorkerFrame /\ UNCHANGED notGui

\* what a worker thread does outside the function of the worker module
ThreadStep(t) ==
    \/ EnterSaveStdout(t)
    \/ EnterSaveStderr(t)
    \/ EnterSetStdout(t)
    \/ EnterSetStderr(t)
    \/ ExitRestoreStdout(t)
    \/ ExitRestoreStderr(t)

GuiNext ==
    \/ \E r \in StartRequests :
          StartTask(r.mode, r.config_exists, r.team_exists, r.count)
    \/ StopTask
    \/ OnTaskFinished
    \/ \E t \in 1..MaxTasks : ThreadStep(t)
    \/ \E t \in 1..MaxTasks, outcome \in BodyOutcomes : BodyEnds(t, outcome)

\* The event loop of the GUI thread (main.py:424) runs the callbacks that
\* are waiting.
GuiFairness == WF_vars(OnTaskFinished)


\* the workers whose function is executing
BodiesRunning == { t \in 1..Len(workers) : workers[t].pc = "body" }

\* the workers that have not yet scheduled _on_task_finished
Unfinished ==
    { t \in 1..Len(workers) :
        workers[t].pc \in { "save_stdout", "save_stderr", "set_stdout",
                            "set_stderr", "body" } }

\* everything of the GUI but the record of the handler that ran
GuiStateProper == <<_state, _btn_start, _btn_stop, _status_var, stopEvents,
                    workers, sys_stdout, sys_stderr, installed, afterQueue,
                    stopsFor, lastEnded>>

\* a start request was handled in this step and ended as `results` say
StartHandled(results) ==
    /\ guiHandled' # guiHandled
    /\ guiHandled'.op = "start"
    /\ guiHandled'.result \in results

\* C37: the GUI runs at most one pipeline worker at a time. At most one
\* worker is before the end of its function, and while there is one the
\* running flag is true and the run state names it; a start request handled
\* while a task is marked running creates no thread and changes no state; a
\* start request rejected by validation changes nothing and leaves the
\* state idle; a thread is created only by a start accepted while the flag
\* was false; and the flag goes from true to false only in
\* _on_task_finished.
C37_OneWorkerAtATime ==
    /\ [](/\ Cardinality(BodiesRunning) <= 1
          /\ Cardinality(Unfinished) <= 1
          /\ \A t \in Unfinished : _state.running /\ _state.thread = Some(t))
    /\ [][StartHandled({"busy"}) => _state.running /\ UNCHANGED GuiStateProper]_guiVars
    /\ [][StartHandled({"no_config", "no_team", "bad_count"}) =>
             ~_state'.running /\ UNCHANGED GuiStateProper]_guiVars
    /\ [][workers' # workers /\ Len(workers') # Len(workers) =>
             /\ ~_state.running /\ StartHandled({"ok"})
             /\ Len(workers') = Len(workers) + 1]_guiVars
    /\ [][_state.running /\ ~_state'.running =>
             guiHandled' = [op |-> "finished", result |-> "idle"]]_guiVars

\* The second task is executing while the thread of the first is still
\* leaving its redirection, and a start request has just been refused.
C37_Witness ==
    /\ Len(workers) = 2
    /\ workers[1].pc = "restore_stdout"
    /\ workers[2].pc = "body"
    /\ guiHandled = [op |-> "start", result |-> "busy"]


\* a stop request was handled in this step and ended as `results` say
StopHandled(results) ==
    /\ guiHandled' # guiHandled
    /\ guiHandled'.op = "stop"
    /\ guiHandled'.result \in results

\* C38: stop is cooperative. A stop request handled while a task is marked
\* running sets the stop event of the run state and leaves the run state,
\* the buttons, the threads and every other event as they are; handled
\* while no task is running it changes nothing; an event is set by nothing
\* but a stop request; the running flag is cleared only after the function
\* of the worker has ended; every thread is created with an event that is
\* unset and that no earlier thread holds; and a worker returns early on
\* its stop event only if a stop was requested while it was the running
\* task.
C38_StopIsCooperative ==
    /\ [][StopHandled({"set"}) =>
             /\ _state.running
             /\ UNCHANGED <<_state, _btn_start, _btn_stop, workers,
                            afterQueue, sys_stdout, sys_stderr>>
             /\ stopEvents' =
                   [stopEvents EXCEPT ![_state.stop_event.val] = TRUE]]_guiVars
    /\ [][StopHandled({"ignored"}) =>
             ~_state.running /\ UNCHANGED GuiStateProper]_guiVars
    /\ [][(\E i \in 1..Len(stopEvents) : stopEvents'[i] # stopEvents[i]) =>
             StopHandled({"set"})]_guiVars
    /\ [][_state.running /\ ~_state'.running =>
             _state.thread.val \notin Unfinished]_guiVars
    /\ [][Len(workers') > Len(workers) =>
             LET new == workers'[Len(workers')]
             IN  /\ ~stopEvents'[new.stop_event]
                 /\ _state'.stop_event = Some(new.stop_event)
                 /\ \A t \in 1..Len(workers) :
                       workers[t].stop_event # new.stop_event]_guiVars
    /\ [](lastEnded.outcome = "stopped" => lastEnded.task \in stopsFor)

\* A stop was requested for the first run and its event is set; the second
\* run is executing with its own event, which nobody has set.
C38_Witness ==
    /\ Len(workers) = 2
    /\ stopEvents[workers[1].stop_event]
    /\ workers[2].pc = "body"
    /\ ~stopEvents[workers[2].stop_event]
    /\ stopsFor = {1}

\* every thread that was started has left its redirection
AllExited ==
    workers # <<>> /\ \A t \in 1..Len(workers) : workers[t].pc = "exited"

\* While the function of task t executes, both streams are its writers;
\* once every thread has exited, both are what they were when the window
\* was built.
RedirectionScoped ==
    /\ \A t \in BodiesRunning :
          /\ sys_stdout = QueueWriter(t, "stdout")
          /\ sys_stderr = QueueWriter(t, "stderr")
    /\ AllExited => sys_stdout = installed.out /\ sys_stderr = installed.err

\* C39: output redirection is scoped to the task, for every interleaving of
\* the GUI thread and the worker threads, a start right after
\* _on_task_finished while the thread before is still in __exit__ included.
C39_RedirectionScopedToTask == RedirectionScoped

\* The same where sys.stdout and sys.stderr were streams when the window was
\* built (a console build).
RedirectionScopedInConsoleBuild ==
    (~installed.out.none /\ ~installed.err.none) => RedirectionScoped

\* With streams installed, the first task has its writers while it executes
\* and the streams are back once its thread has exited, as long as no
\* second task has been started.
RedirectionScopedForOneTask ==
    (~installed.out.none /\ ~installed.err.none /\ Len(workers) <= 1)
        => RedirectionScoped

\* what _on_task_finished leaves behind
GuiShowsIdle ==
    /\ ~_state.running
    /\ _btn_start = "normal"
    /\ _btn_stop = "disabled"

\* the function of the task that is marked running has ended
RunningTaskEnded ==
    /\ _state.running
    /\ ~_state.thread.none
    /\ _state.thread.val \notin Unfinished

\* C40: every started task eventually returns the GUI to idle. Whenever the
\* function of the running task has ended, by returning or by raising
\* anything, _on_task_finished is eventually executed: the running flag is
\* false, start is enabled and stop is disabled.
C40_EndedTaskReturnsGuiToIdle == RunningTaskEnded ~> GuiShowsIdle

\* The function of a task raised what target does not catch, and
\* _on_task_finished has run since.
C40_Witness ==
    /\ lastEnded.outcome = "uncaught"
    /\ guiHandled = [op |-> "finished", result |-> "idle"]
    /\ GuiShowsIdle
    /\ afterQueue = 0

\* -------------------------------------------------------------------------
\* Specifications
\* -------------------------------------------------------------------------
TrackerIdle ==
    /\ tracker = [teams |-> EmptyDict]
    /\ now = 0
    /\ lastCall = [op |-> "load"]
    /\ ret = FALSE
    /\ nCalls = 0

\* the account tracker
Init == TrackerInit /\ CpaIdle /\ UrlIdle /\ ExistsIdle /\ CrsIdle
    /\ ParseIdle /\ GenIdle /\ BndIdle /\ VfyIdle /\ RtIdle /\ PstIdle
    /\ GrpIdle /\ AttIdle /\ CsvIdle /\ LdIdle /\ XpIdle /\ DflIdle
    /\ PxIdle /\ BlIdle /\ SvIdle /\ GuiIdle
Next == TrackerNext
Spec == Init /\ [][Next]_vars

\* CPA polling; the poller is a sequential program that keeps running
CpaSpecInit == CpaInit /\ TrackerIdle /\ UrlIdle /\ ExistsIdle /\ CrsIdle
    /\ ParseIdle /\ GenIdle /\ BndIdle /\ VfyIdle /\ RtIdle /\ PstIdle
    /\ GrpIdle /\ AttIdle /\ CsvIdle /\ LdIdle /\ XpIdle /\ DflIdle
    /\ PxIdle /\ BlIdle /\ SvIdle /\ GuiIdle
CpaSpec == CpaSpecInit /\ [][CpaNext]_vars /\ WF_vars(CpaNext)

\* recognition of the callback URL
UrlSpecInit == UrlInit /\ TrackerIdle /\ CpaIdle /\ ExistsIdle /\ CrsIdle
    /\ ParseIdle /\ GenIdle /\ BndIdle /\ VfyIdle /\ RtIdle /\ PstIdle
    /\ GrpIdle /\ AttIdle /\ CsvIdle /\ LdIdle /\ XpIdle /\ DflIdle
    /\ PxIdle /\ BlIdle /\ SvIdle /\ GuiIdle
UrlSpec == UrlSpecInit /\ [][UrlNext]_vars

\* existence checks of the adapters
ExistsSpecInit == ExistsInit /\ TrackerIdle /\ CpaIdle /\ UrlIdle /\ CrsIdle
    /\ ParseIdle /\ GenIdle /\ BndIdle /\ VfyIdle /\ RtIdle /\ PstIdle
    /\ GrpIdle /\ AttIdle /\ CsvIdle /\ LdIdle /\ XpIdle /\ DflIdle
    /\ PxIdle /\ BlIdle /\ SvIdle /\ GuiIdle
ExistsSpec == ExistsSpecInit /\ [][ExistsNext]_vars

\* mirroring of the team owners into CRS
CrsSpecInit == CrsInit /\ TrackerIdle /\ CpaIdle /\ UrlIdle /\ ExistsIdle
    /\ ParseIdle /\ GenIdle /\ BndIdle /\ VfyIdle /\ RtIdle /\ PstIdle
    /\ GrpIdle /\ AttIdle /\ CsvIdle /\ LdIdle /\ XpIdle /\ DflIdle
    /\ PxIdle /\ BlIdle /\ SvIdle /\ GuiIdle
CrsSpec == CrsSpecInit /\ [][CrsNext]_vars

\* normalisation of team.json records
ParseSpecInit == ParseInit /\ TrackerIdle /\ CpaIdle /\ UrlIdle
    /\ ExistsIdle /\ CrsIdle /\ GenIdle /\ BndIdle /\ VfyIdle /\ RtIdle
    /\ PstIdle /\ GrpIdle /\ AttIdle /\ CsvIdle /\ LdIdle /\ XpIdle
    /\ DflIdle /\ PxIdle /\ BlIdle /\ SvIdle /\ GuiIdle
ParseSpec == ParseSpecInit /\ [][ParseNext]_vars

\* generation of the authorization URL
GenSpecInit == GenInit /\ TrackerIdle /\ CpaIdle /\ UrlIdle /\ ExistsIdle
    /\ CrsIdle /\ ParseIdle /\ BndIdle /\ VfyIdle /\ RtIdle /\ PstIdle
    /\ GrpIdle /\ AttIdle /\ CsvIdle /\ LdIdle /\ XpIdle /\ DflIdle
    /\ PxIdle /\ BlIdle /\ SvIdle /\ GuiIdle
GenSpec == GenSpecInit /\ [][GenNext]_vars

\* what the adapter calls hand back to their callers
BndSpecInit == BndInit /\ TrackerIdle /\ CpaIdle /\ UrlIdle /\ ExistsIdle
    /\ CrsIdle /\ ParseIdle /\ GenIdle /\ VfyIdle /\ RtIdle /\ PstIdle
    /\ GrpIdle /\ AttIdle /\ CsvIdle /\ LdIdle /\ XpIdle /\ DflIdle
    /\ PxIdle /\ BlIdle /\ SvIdle /\ GuiIdle
BndSpec == BndSpecInit /\ [][BndNext]_vars

\* verification of the connection at startup
VfySpecInit == VfyInit /\ TrackerIdle /\ CpaIdle /\ UrlIdle /\ ExistsIdle
    /\ CrsIdle /\ ParseIdle /\ GenIdle /\ BndIdle /\ RtIdle /\ PstIdle
    /\ GrpIdle /\ AttIdle /\ CsvIdle /\ LdIdle /\ XpIdle /\ DflIdle
    /\ PxIdle /\ BlIdle /\ SvIdle /\ GuiIdle
VfySpec == VfySpecInit /\ [][VfyNext]_vars

\* the retrying transport
RtSpecInit == RtInit /\ TrackerIdle /\ CpaIdle /\ UrlIdle /\ ExistsIdle
    /\ CrsIdle /\ ParseIdle /\ GenIdle /\ BndIdle /\ VfyIdle /\ PstIdle
    /\ GrpIdle /\ AttIdle /\ CsvIdle /\ LdIdle /\ XpIdle /\ DflIdle
    /\ PxIdle /\ BlIdle /\ SvIdle /\ GuiIdle
RtSpec == RtSpecInit /\ [][RtNext]_vars

\* the tracker file across crashes and restarts
PstSpecInit == PstInit /\ TrackerIdle /\ CpaIdle /\ UrlIdle /\ ExistsIdle
    /\ CrsIdle /\ ParseIdle /\ GenIdle /\ BndIdle /\ VfyIdle /\ RtIdle
    /\ GrpIdle /\ AttIdle /\ CsvIdle /\ LdIdle /\ XpIdle /\ DflIdle
    /\ PxIdle /\ BlIdle /\ SvIdle /\ GuiIdle
PstSpec == PstSpecInit /\ [][PstNext]_vars

\* the resolved group-ID cache
GrpSpecInit == GrpInit /\ TrackerIdle /\ CpaIdle /\ UrlIdle /\ ExistsIdle
    /\ CrsIdle /\ ParseIdle /\ GenIdle /\ BndIdle /\ VfyIdle /\ RtIdle
    /\ PstIdle /\ AttIdle /\ CsvIdle /\ LdIdle /\ XpIdle /\ DflIdle
    /\ PxIdle /\ BlIdle /\ SvIdle /\ GuiIdle
GrpSpec == GrpSpecInit /\ [][GrpNext]_vars

\* one account through authorization and pool insertion
AttSpecInit == AttInit /\ TrackerIdle /\ CpaIdle /\ UrlIdle /\ ExistsIdle
    /\ CrsIdle /\ ParseIdle /\ GenIdle /\ BndIdle /\ VfyIdle /\ RtIdle
    /\ PstIdle /\ GrpIdle /\ CsvIdle /\ LdIdle /\ XpIdle /\ DflIdle
    /\ PxIdle /\ BlIdle /\ SvIdle /\ GuiIdle
AttSpec == AttSpecInit /\ [][AttNext]_vars

\* the CSV export
CsvSpecInit == CsvInit /\ TrackerIdle /\ CpaIdle /\ UrlIdle /\ ExistsIdle
    /\ CrsIdle /\ ParseIdle /\ GenIdle /\ BndIdle /\ VfyIdle /\ RtIdle
    /\ PstIdle /\ GrpIdle /\ AttIdle /\ LdIdle /\ XpIdle /\ DflIdle
    /\ PxIdle /\ BlIdle /\ SvIdle /\ GuiIdle
CsvSpec == CsvSpecInit /\ [][CsvNext]_vars

\* loading of team.json
LdSpecInit == LdInit /\ TrackerIdle /\ CpaIdle /\ UrlIdle /\ ExistsIdle
    /\ CrsIdle /\ ParseIdle /\ GenIdle /\ BndIdle /\ VfyIdle /\ RtIdle
    /\ PstIdle /\ GrpIdle /\ AttIdle /\ CsvIdle /\ XpIdle /\ DflIdle
    /\ PxIdle /\ BlIdle /\ SvIdle /\ GuiIdle
LdSpec == LdSpecInit /\ [][LdNext]_vars

\* two pipeline instances on one tracker file
XpSpecInit == XpInit /\ TrackerIdle /\ CpaIdle /\ UrlIdle /\ ExistsIdle
    /\ CrsIdle /\ ParseIdle /\ GenIdle /\ BndIdle /\ VfyIdle /\ RtIdle
    /\ PstIdle /\ GrpIdle /\ AttIdle /\ CsvIdle /\ LdIdle /\ DflIdle
    /\ PxIdle /\ BlIdle /\ SvIdle /\ GuiIdle
XpSpec == XpSpecInit /\ [][XpNext]_vars

\* the polling budget the configuration gives
DflSpecInit == DflInit /\ TrackerIdle /\ CpaIdle /\ UrlIdle /\ ExistsIdle
    /\ CrsIdle /\ ParseIdle /\ GenIdle /\ BndIdle /\ VfyIdle /\ RtIdle
    /\ PstIdle /\ GrpIdle /\ AttIdle /\ CsvIdle /\ LdIdle /\ XpIdle
    /\ PxIdle /\ BlIdle /\ SvIdle /\ GuiIdle
DflSpec == DflSpecInit /\ [][DflNext]_vars

\* the proxy rotation
PxSpecInit == PxInit /\ TrackerIdle /\ CpaIdle /\ UrlIdle /\ ExistsIdle
    /\ CrsIdle /\ ParseIdle /\ GenIdle /\ BndIdle /\ VfyIdle /\ RtIdle
    /\ PstIdle /\ GrpIdle /\ AttIdle /\ CsvIdle /\ LdIdle /\ XpIdle
    /\ DflIdle /\ BlIdle /\ SvIdle /\ GuiIdle
PxSpec == PxSpecInit /\ [][PxNext]_vars

\* the domain blacklist
BlSpecInit == BlInit /\ TrackerIdle /\ CpaIdle /\ UrlIdle /\ ExistsIdle
    /\ CrsIdle /\ ParseIdle /\ GenIdle /\ BndIdle /\ VfyIdle /\ RtIdle
    /\ PstIdle /\ GrpIdle /\ AttIdle /\ CsvIdle /\ LdIdle /\ XpIdle
    /\ DflIdle /\ PxIdle /\ SvIdle /\ GuiIdle
BlSpec == BlSpecInit /\ [][BlNext]_vars

\* saving of team.json
SvSpecInit == SvInit /\ TrackerIdle /\ CpaIdle /\ UrlIdle /\ ExistsIdle
    /\ CrsIdle /\ ParseIdle /\ GenIdle /\ BndIdle /\ VfyIdle /\ RtIdle
    /\ PstIdle /\ GrpIdle /\ AttIdle /\ CsvIdle /\ LdIdle /\ XpIdle
    /\ DflIdle /\ PxIdle /\ BlIdle /\ GuiIdle
SvSpec == SvSpecInit /\ [][SvNext]_vars

\* the Tk GUI and its worker threads
GuiSpecInit == GuiInit /\ TrackerIdle /\ CpaIdle /\ UrlIdle /\ ExistsIdle
    /\ CrsIdle /\ ParseIdle /\ GenIdle /\ BndIdle /\ VfyIdle /\ RtIdle
    /\ PstIdle /\ GrpIdle /\ AttIdle /\ CsvIdle /\ LdIdle /\ XpIdle
    /\ DflIdle /\ PxIdle /\ BlIdle /\ SvIdle
GuiSpec == GuiSpecInit /\ [][GuiNext]_vars
\* the same with the scheduling it relies on
GuiLiveSpec == GuiSpec /\ GuiFairness

====
